---- MODULE Spec2Model ----
(***************************************************************************)
(* Model of hexagon_light.py: the frame codec (_build_command and its      *)
(* helpers) and the HexagonLight session: the synchronous facade running   *)
(* on the caller's thread, the coroutines it submits to the background     *)
(* asyncio loop, and the transport (BleakClient) callbacks.                *)
(*                                                                         *)
(* A coroutine is a task record; its pc is the await it is suspended at or *)
(* the "with self._state_lock" it is about to enter.  One action resumes a *)
(* task from an await with one outcome of the awaited transport operation, *)
(* or enters a lock section, and runs the code up to the next await or     *)
(* lock section: the threads of two loops and the caller's thread          *)
(* interleave between the lock sections of a coroutine.  The loop thread   *)
(* (_runner) and the two callbacks that touch the event outside the lock   *)
(* (_notify_handler, _on_disconnect) take two steps each; cb holds the     *)
(* callback each loop thread is inside.  A read of is_connected that       *)
(* follows a lock section is a step of its own, and so is every lock       *)
(* section of a facade call.  The wait of a facade call (fut.result) may   *)
(* expire wherever the coroutine it waits for is, and the thread.join of   *)
(* disconnect() may return before the loop thread has ended.               *)
(*                                                                         *)
(* Spec is the whole session.  SpecCommands, SpecScenes, SpecState and     *)
(* SpecTimeouts are the session driven by a part of the facade: connect()  *)
(* and disconnect() with the commands of one frame, with set_scene(), with *)
(* get_state() and the device's notifications, or with turn_on() and       *)
(* get_state() where two waits may time out in one behaviour.              *)
(***************************************************************************)
EXTENDS Integers, Sequences, FiniteSets, TLC

\* ---------------------------------------------------------------- bounds
\* self._connect_retries (constructor argument, default 5)
ConnectRetries == 2
\* number of BleakClient objects that get connected in one behaviour
MaxHandles == 2
\* number of coroutines the facade may submit in one behaviour
MaxTasks == 3
\* number of waits for a coroutine (fut.result) that may time out in one
\* behaviour, and outside SpecTimeouts of waits of both kinds together
MaxAbandoned == 1
\* number of waits for a loop thread to start (ready.wait) that may time out
\* in one behaviour
MaxLate == 1
\* longest short payload enumerated for _build_command
MaxPayloadLen == 2

\* ------------------------------------------------------------- Optional
None == <<>>
Some(x) == <<x>>

\* ---------------------------------------------------------------- codec
\* sum(bytes), summed by halves
RECURSIVE SumRange(_, _, _)
SumRange(s, lo, hi) ==
    IF lo > hi THEN 0
    ELSE IF lo = hi THEN s[lo]
    ELSE SumRange(s, lo, (lo + hi) \div 2) + SumRange(s, (lo + hi) \div 2 + 1, hi)

SumBytes(s) == SumRange(s, 1, Len(s))

\* a checksum that completes the sum to 0 instead of 0xFF
ChecksumTwosComplement(sum) == (256 - (sum % 256)) % 256

\* _checksum_ff: (0xFF - (sum & 0xFF)) & 0xFF
ChecksumFF(sum) == (255 - (sum % 256)) % 256

\* the frame before its last byte is set: bytearray(length) filled in place
FrameBody(cmd, payload) ==
    <<85, cmd % 256, 255, (5 + Len(payload)) % 256>> \o payload

\* _build_command without its length check: the length byte wraps
BuildCommandTruncating(cmd, payload) ==
    [err |-> "none",
     frame |-> FrameBody(cmd, payload)
               \o <<ChecksumFF(SumBytes(FrameBody(cmd, payload)))>>]

\* _build_command: the frame, or the ValueError it raises
BuildCommand(cmd, payload) ==
    IF 5 + Len(payload) > 255
    THEN [err |-> "ValueError", frame |-> <<>>]
    ELSE [err |-> "none",
          frame |-> FrameBody(cmd, payload)
                    \o <<ChecksumFF(SumBytes(FrameBody(cmd, payload)))>>]

\* _send_simple_power: payload and frame of the power command
PowerFrame(on) == BuildCommand(1, <<IF on THEN 1 ELSE 0>>).frame

\* _request_sync_async: frame of the sync request (payload None -> b"")
SyncFrame == BuildCommand(0, <<>>).frame

\* _clamp_int
ClampInt(value, lo, hi) ==
    IF value < lo THEN lo ELSE IF value > hi THEN hi ELSE value

\* _u16_be: value & 0xFFFF, high byte first
U16BE(value) == <<((value % 65536) \div 256) % 256, (value % 65536) % 256>>

\* _set_scene_async: the scene frame (cmd 0x06)
SceneFrame(scene) == BuildCommand(6, U16BE(ClampInt(scene, 0, 65535))).frame

\* _set_scene_async: the scene-speed frame (cmd 0x0F), built when speed is
\* not None
SpeedFrame(speed) == BuildCommand(15, <<ClampInt(speed, 0, 255) % 256>>).frame

\* _set_scene_async: the frames it hands to _write_frame, in order; speed is
\* Optional[int]
SetSceneFrames(scene, speed) ==
    IF speed = None
    THEN <<SceneFrame(scene)>>
    ELSE <<SceneFrame(scene), SpeedFrame(speed[1])>>

\* ----------------------------------------------------- codec input sets
Bytes == {0, 1, 255}
ShortPayloads == UNION {[1..n -> Bytes] : n \in 0..MaxPayloadLen}
\* payloads around the 255-byte frame limit (5 + 250 = 255)
LongLens == {249, 250, 251, 252}
LongPayloads == {[i \in 1..n |-> b] : n \in LongLens, b \in {0, 255}}
Payloads == ShortPayloads \cup LongPayloads
\* the known commands, 0xFF, and one value above a byte (masked by & 0xFF)
Cmds == {0, 1, 3, 5, 6, 15, 255, 257}

\* ------------------------------------------------------------ scene names
\* a name is the sequence of its characters; a character is a string of
\* length one, so the characters are the code points below 256
\* the letters str.lower() changes, and what it changes them to
UpperLetters ==
    <<"A", "B", "C", "D", "E", "F", "G", "H", "I", "J", "K", "L", "M", "N",
      "O", "P", "Q", "R", "S", "T", "U", "V", "W", "X", "Y", "Z", "À", "Á",
      "Â", "Ã", "Ä", "Å", "Æ", "Ç", "È", "É", "Ê", "Ë", "Ì", "Í", "Î", "Ï",
      "Ð", "Ñ", "Ò", "Ó", "Ô", "Õ", "Ö", "Ø", "Ù", "Ú", "Û", "Ü", "Ý", "Þ">>
LowerLetters ==
    <<"a", "b", "c", "d", "e", "f", "g", "h", "i", "j", "k", "l", "m", "n",
      "o", "p", "q", "r", "s", "t", "u", "v", "w", "x", "y", "z", "à", "á",
      "â", "ã", "ä", "å", "æ", "ç", "è", "é", "ê", "ë", "ì", "í", "î", "ï",
      "ð", "ñ", "ò", "ó", "ô", "õ", "ö", "ø", "ù", "ú", "û", "ü", "ý", "þ">>

\* str.lower() on one character
LowerChar(c) ==
    IF \E i \in 1..Len(UpperLetters) : UpperLetters[i] = c
    THEN LowerLetters[CHOOSE i \in 1..Len(UpperLetters) : UpperLetters[i] = c]
    ELSE c

\* the upper-case form of a letter of LowerLetters (str.upper() on it)
UpperChar(c) ==
    IF \E i \in 1..Len(LowerLetters) : LowerLetters[i] = c
    THEN UpperLetters[CHOOSE i \in 1..Len(LowerLetters) : LowerLetters[i] = c]
    ELSE c

\* str.lower()
Lower(name) == [i \in 1..Len(name) |-> LowerChar(name[i])]

\* str.replace(old, new) for single characters
Replace(name, old, new) ==
    [i \in 1..Len(name) |-> IF name[i] = old THEN new ELSE name[i]]

\* the characters str.isspace() is true of: tab, line feed, vertical tab,
\* form feed, carriage return, the separators U+001C..U+001F, space, next
\* line (U+0085) and no-break space (U+00A0)
Whitespace ==
    {"\t", "\n", "", "\f", "\r", "", "", "", "", " ", "", " "}

\* str.strip(): leading and trailing whitespace removed
RECURSIVE StripLeft(_)
StripLeft(name) ==
    IF name # <<>> /\ name[1] \in Whitespace THEN StripLeft(Tail(name)) ELSE name

RECURSIVE StripRight(_)
StripRight(name) ==
    IF name # <<>> /\ name[Len(name)] \in Whitespace
    THEN StripRight(SubSeq(name, 1, Len(name) - 1))
    ELSE name

Strip(name) == StripRight(StripLeft(name))

\* SCENES_TG609
ScenesTG609 ==
    {
     [key |-> <<"s", "y", "m", "p", "h", "o", "n", "y">>, index |-> 2],
     [key |-> <<"e", "n", "e", "r", "g", "y">>, index |-> 3],
     [key |-> <<"j", "u", "m", "p">>, index |-> 4],
     [key |-> <<"v", "i", "t", "a", "l", "i", "t", "y">>, index |-> 7],
     [key |-> <<"a", "c", "c", "u", "m", "u", "l", "a", "t", "i", "o", "n">>, index |-> 16],
     [key |-> <<"c", "h", "a", "s", "e">>, index |-> 23],
     [key |-> <<"s", "p", "a", "c", "e", "-", "t", "i", "m", "e">>, index |-> 45],
     [key |-> <<"s", "p", "a", "c", "e", "_", "t", "i", "m", "e">>, index |-> 45],
     [key |-> <<"e", "p", "h", "e", "m", "e", "r", "a", "l">>, index |-> 35],
     [key |-> <<"f", "l", "o", "w">>, index |-> 55],
     [key |-> <<"f", "o", "r", "e", "s", "t">>, index |-> 13],
     [key |-> <<"n", "e", "o", "n", "_", "l", "i", "g", "h", "t", "s">>, index |-> 48],
     [key |-> <<"n", "e", "o", "n", "-", "l", "i", "g", "h", "t", "s">>, index |-> 48],
     [key |-> <<"g", "r", "e", "e", "n", "_", "j", "a", "d", "e">>, index |-> 71],
     [key |-> <<"g", "r", "e", "e", "n", "-", "j", "a", "d", "e">>, index |-> 71],
     [key |-> <<"r", "u", "n", "n", "i", "n", "g">>, index |-> 91],
     [key |-> <<"p", "i", "n", "k", "_", "l", "i", "g", "h", "t">>, index |-> 109],
     [key |-> <<"p", "i", "n", "k", "-", "l", "i", "g", "h", "t">>, index |-> 109],
     [key |-> <<"a", "l", "a", "r", "m">>, index |-> 113],
     [key |-> <<"a", "u", "r", "o", "r", "a">>, index |-> 59],
     [key |-> <<"r", "a", "i", "n", "b", "o", "w">>, index |-> 26],
     [key |-> <<"m", "e", "l", "o", "d", "y">>, index |-> 32]
    }

\* SCENES_TG609.get(key)
SceneGet(key) ==
    IF \E e \in ScenesTG609 : e.key = key
    THEN Some((CHOOSE e \in ScenesTG609 : e.key = key).index)
    ELSE None

\* set_scene_by_name without lower(): the table is searched as typed
ResolveSceneNameCaseSensitive(name) ==
    LET key == Replace(Strip(name), " ", "_")
        key2 == Replace(Strip(name), "_", "-")
    IN  IF SceneGet(key) # None
        THEN [err |-> "none", scene |-> SceneGet(key)[1]]
        ELSE IF SceneGet(key2) # None
        THEN [err |-> "none", scene |-> SceneGet(key2)[1]]
        ELSE [err |-> "UnknownScene", scene |-> 0]

\* set_scene_by_name up to the call of set_scene: the scene index, or the
\* HexagonLightError "Unknown scene name"
ResolveSceneName(name) ==
    LET key == Replace(Lower(Strip(name)), " ", "_")
        key2 == Replace(Lower(Strip(name)), "_", "-")
    IN  IF SceneGet(key) # None
        THEN [err |-> "none", scene |-> SceneGet(key)[1]]
        ELSE IF SceneGet(key2) # None
        THEN [err |-> "none", scene |-> SceneGet(key2)[1]]
        ELSE [err |-> "UnknownScene", scene |-> 0]

\* ----------------------------------------------------- scene name inputs
\* a spelling of a table key: the letters marked by mask in upper case, the
\* separator kept, or written as underscore, or written as hyphen
Spelling(key, mask, sep) ==
    [i \in 1..Len(key) |->
        IF key[i] \in {"-", "_"}
        THEN (IF sep = "keep" THEN key[i] ELSE IF sep = "underscore" THEN "_" ELSE "-")
        ELSE IF mask[i] THEN UpperChar(key[i]) ELSE key[i]]

\* every spelling of every table key
SceneSpellings ==
    UNION {{Spelling(e.key, mask, sep) :
               mask \in [1..Len(e.key) -> BOOLEAN],
               sep \in {"keep", "underscore", "hyphen"}} : e \in ScenesTG609}

\* names written with spaces or surrounded by whitespace of every kind, names
\* with letters outside ASCII, and names of no scene
OtherNames ==
    {<<>>,
     <<"g", "r", "e", "e", "n", " ", "j", "a", "d", "e">>,
     <<"S", "p", "a", "c", "e", " ", "T", "i", "m", "e">>,
     <<" ", "f", "l", "o", "w">>,
     <<"f", "l", "o", "w", "\n">>,
     <<"\t", "J", "u", "m", "p", " ">>,
     <<" ">>,
     <<"g", "r", "e", "e", "n", "j", "a", "d", "e">>,
     <<"s", "y", "m", "-", "p", "h", "o", "n", "y">>,
     <<"s", "p", "a", "c", "e", "-", "-", "t", "i", "m", "e">>,
     <<"f", "l", "o">>,
     <<"f", "l", "o", "w", "s">>,
     <<"g", "r", "e", "e", "n", ".", "j", "a", "d", "e">>,
     <<"g", "r", "e", "e", "n", "\t", "j", "a", "d", "e">>,
     <<"n", "e", "o", "n", " ", "l", "i", "g", "h", "t", "s", " ">>,
     <<"p", "i", "n", "k", " ", "l", "i", "g", "h", "t">>,
     <<"f", "l", "o", "w", "\r">>,
     <<"f", "l", "o", "w", "\r", "\n">>,
     <<"\r", "f", "l", "o", "w">>,
     <<"\f", "g", "r", "e", "e", "n", " ", "j", "a", "d", "e">>,
     <<"j", "u", "m", "p", "">>,
     <<" ", "a", "l", "a", "r", "m">>,
     <<"", "f", "l", "o", "w">>,
     <<"f", "l", "o", "w", "">>,
     <<"", "f", "l", "o", "w">>,
     <<"f", "l", "\r", "o", "w">>,
     <<"É", "n", "e", "r", "g", "y">>,
     <<"A", "L", "A", "R", "M", "">>,
     <<"À", "l", "a", "r", "m">>,
     <<"r", "a", "i", "n", "b", "o", "þ">>}

SceneNameInputs == SceneSpellings \cup OtherNames

\* ------------------------------------------------------------- brightness
\* set_brightness with _set_brightness_async ignoring the +5 offset
SetBrightnessFrameNoOffset(percent) ==
    BuildCommand(5, U16BE(ClampInt(ClampInt(percent, 0, 100) * 10, 0, 65535))).frame

\* set_brightness and _set_brightness_async: the frame handed to _write_frame
SetBrightnessFrame(percent) ==
    BuildCommand(5, U16BE(ClampInt((ClampInt(percent, 0, 100) + 5) * 10,
                                   0, 65535))).frame

\* percents around the accepted range, and integers far outside it
BrightnessInputs == (-20..120) \cup {-70000, -6549, 6549, 6550, 70000}

\* ------------------------------------------------- integers of any size
\* a natural number as the sequence of its digits of base 2^15, the lowest
\* first and the highest not zero; <<>> is 0
Base == 32768
DigitBits == 15

RECURSIVE NNorm(_)
NNorm(a) ==
    IF a = <<>> THEN <<>>
    ELSE IF a[Len(a)] = 0 THEN NNorm(SubSeq(a, 1, Len(a) - 1))
    ELSE a

\* n < 2^31
NFromInt(n) == NNorm(<<n % Base, (n \div Base) % Base, n \div (Base * Base)>>)

\* a < 2^30
NToInt(a) == IF a = <<>> THEN 0
             ELSE IF Len(a) = 1 THEN a[1]
             ELSE a[1] + Base * a[2]

Digit(a, i) == IF i <= Len(a) THEN a[i] ELSE 0

RECURSIVE NCmpFrom(_, _, _)
NCmpFrom(a, b, i) ==
    IF i = 0 THEN 0
    ELSE IF a[i] > b[i] THEN 1
    ELSE IF a[i] < b[i] THEN -1
    ELSE NCmpFrom(a, b, i - 1)

\* 1, 0 or -1 as a > b, a = b or a < b
NCmp(a, b) ==
    IF Len(a) > Len(b) THEN 1
    ELSE IF Len(a) < Len(b) THEN -1
    ELSE NCmpFrom(a, b, Len(a))

RECURSIVE NAddFrom(_, _, _, _)
NAddFrom(a, b, i, carry) ==
    IF i > Len(a) /\ i > Len(b)
    THEN IF carry = 0 THEN <<>> ELSE <<carry>>
    ELSE LET d == Digit(a, i) + Digit(b, i) + carry
         IN  <<d % Base>> \o NAddFrom(a, b, i + 1, d \div Base)

NAdd(a, b) == NAddFrom(a, b, 1, 0)

RECURSIVE NSubFrom(_, _, _, _)
NSubFrom(a, b, i, borrow) ==
    IF i > Len(a) THEN <<>>
    ELSE LET d == a[i] - Digit(b, i) - borrow
         IN  <<(d + Base) % Base>> \o
                 NSubFrom(a, b, i + 1, IF d < 0 THEN 1 ELSE 0)

\* a - b for a >= b
NSub(a, b) == NNorm(NSubFrom(a, b, 1, 0))

RECURSIVE NMulFrom(_, _, _, _)
NMulFrom(a, c, i, carry) ==
    IF i > Len(a)
    THEN IF carry = 0 THEN <<>> ELSE <<carry>>
    ELSE LET d == a[i] * c + carry
         IN  <<d % Base>> \o NMulFrom(a, c, i + 1, d \div Base)

\* a * c for 0 < c < 2^15
NMulSmall(a, c) == NMulFrom(a, c, 1, 0)

RECURSIVE NDivFrom(_, _, _, _)
NDivFrom(a, c, i, rem) ==
    IF i = 0 THEN <<>>
    ELSE LET d == rem * Base + a[i]
         IN  NDivFrom(a, c, i - 1, d % c) \o <<d \div c>>

\* a \div c for 0 < c < 2^15
NDivSmall(a, c) == NNorm(NDivFrom(a, c, Len(a), 0))

RECURSIVE Zeros(_)
Zeros(n) == IF n = 0 THEN <<>> ELSE <<0>> \o Zeros(n - 1)

\* a * 2^k
NShl(a, k) ==
    IF a = <<>> THEN <<>>
    ELSE Zeros(k \div DigitBits) \o NMulSmall(a, 2 ^ (k % DigitBits))

\* a \div 2^k
NShr(a, k) ==
    IF k \div DigitBits >= Len(a) THEN <<>>
    ELSE NDivSmall(SubSeq(a, (k \div DigitBits) + 1, Len(a)),
                   2 ^ (k % DigitBits))

RECURSIVE BitLenSmall(_)
BitLenSmall(n) == IF n = 0 THEN 0 ELSE 1 + BitLenSmall(n \div 2)

\* the number of binary digits of a
NBitLen(a) ==
    IF a = <<>> THEN 0
    ELSE DigitBits * (Len(a) - 1) + BitLenSmall(a[Len(a)])

\* ------------------------------------------------------- Python floats
\* the element of a set of one element; The({F(x) : x \in {e}}) is F(e) with
\* e computed once
The(S) == CHOOSE x \in S : TRUE

\* a float is sg * m * 2^e with m = 0 or 2^52 <= m < 2^53 (IEEE 754 binary64,
\* normal numbers; nothing computed below leaves their range)
MantBits == 53

FZero == [sg |-> 1, m |-> <<>>, e |-> 0]

\* n * 2^e for n of L > 53 binary digits, cut to q = n \div 2^(L-53) and
\* rounded up when the rest is over half, or is half and q is odd
FRoundCut(sg, n, e, k, q) ==
    The({IF NBitLen(q1) > MantBits
         THEN [sg |-> sg, m |-> NShr(q1, 1), e |-> e + k + 1]
         ELSE [sg |-> sg, m |-> q1, e |-> e + k] :
            q1 \in {IF \/ NCmp(NSub(n, NShl(q, k)), NShl(<<1>>, k - 1)) = 1
                       \/ /\ NCmp(NSub(n, NShl(q, k)), NShl(<<1>>, k - 1)) = 0
                          /\ q[1] % 2 = 1
                    THEN NAdd(q, <<1>>)
                    ELSE q}})

\* the float nearest to sg * n * 2^e, ties to the even mantissa
FRound(sg, nn, e) ==
    The({IF n = <<>> THEN FZero
         ELSE IF L <= MantBits
         THEN [sg |-> sg, m |-> NShl(n, MantBits - L), e |-> e - (MantBits - L)]
         ELSE FRoundCut(sg, n, e, L - MantBits, NShr(n, L - MantBits)) :
            n \in {nn}, L \in {NBitLen(nn)}})

\* float(n) for an int 0 <= n < 2^31
FFromInt(n) == FRound(1, NFromInt(n), 0)

\* the largest c in lo..hi with c * d <= x, given that lo * d <= x
RECURSIVE QuotDigit(_, _, _, _)
QuotDigit(x, d, lo, hi) ==
    IF lo = hi THEN lo
    ELSE LET mid == (lo + hi + 1) \div 2 IN
         IF NCmp(NMulSmall(d, mid), x) <= 0
         THEN QuotDigit(x, d, mid, hi)
         ELSE QuotDigit(x, d, lo, mid - 1)

\* the digits q of a quotient and the rest rem, after the digit c
DivNext(q, x, d, c) ==
    [q |-> <<c>> \o q, rem |-> IF c = 0 THEN x ELSE NSub(x, NMulSmall(d, c))]

\* i more digits of the quotient st.rem / d after the digits st.q
RECURSIVE DivDigits(_, _, _)
DivDigits(st, d, i) ==
    IF i = 0 THEN st
    ELSE The({DivDigits(The({DivNext(st.q, x, d, c) :
                                c \in {QuotDigit(x, d, 0, Base - 1)}}),
                        d, i - 1) :
                 x \in {IF st.rem = <<>> THEN <<>> ELSE <<0>> \o st.rem}})

\* the mantissa of a / b: the quotient to four digits after the point, and
\* one more binary digit telling whether anything was left
FDivMant(am, bm) ==
    The({NAdd(NAdd(NNorm(st.q), NNorm(st.q)),
              IF st.rem = <<>> THEN <<>> ELSE <<1>>) :
            st \in {DivDigits(IF NCmp(am, bm) >= 0
                              THEN [q |-> <<1>>, rem |-> NSub(am, bm)]
                              ELSE [q |-> <<>>, rem |-> am],
                              bm, 4)}})

\* a / b for b # 0
FDiv(aa, bb) ==
    The({IF a.m = <<>> THEN FZero
         ELSE FRound(a.sg * b.sg, FDivMant(a.m, b.m),
                     a.e - b.e - (4 * DigitBits + 1)) :
            a \in {aa}, b \in {bb}})

\* a + b for a, b # 0 as sg * x * 2^e and sg * y * 2^e
FAddAligned(asg, x, bsg, y, e) ==
    IF asg = bsg THEN FRound(asg, NAdd(x, y), e)
    ELSE IF NCmp(x, y) = 0 THEN FZero
    ELSE IF NCmp(x, y) = 1 THEN FRound(asg, NSub(x, y), e)
    ELSE FRound(bsg, NSub(y, x), e)

\* a + b
FAdd(aa, bb) ==
    The({IF a.m = <<>> THEN b
         ELSE IF b.m = <<>> THEN a
         ELSE The({FAddAligned(a.sg, x, b.sg, y, IF a.e < b.e THEN a.e ELSE b.e) :
                      x \in {NShl(a.m, IF a.e < b.e THEN 0 ELSE a.e - b.e)},
                      y \in {NShl(b.m, IF a.e < b.e THEN b.e - a.e ELSE 0)}}) :
            a \in {aa}, b \in {bb}})

FNeg(aa) == The({IF a.m = <<>> THEN a ELSE [a EXCEPT !.sg = -a.sg] : a \in {aa}})

\* a - b
FSub(a, b) == FAdd(a, FNeg(b))

\* a * c for a float c that is an integer, 0 < c < 2^15
FMulInt(aa, c) == The({FRound(a.sg, NMulSmall(a.m, c), a.e) : a \in {aa}})

\* a < b for a, b >= 0
FLess(aa, bb) ==
    The({IF b.m = <<>> THEN FALSE
         ELSE IF a.m = <<>> THEN TRUE
         ELSE a.e < b.e \/ (a.e = b.e /\ NCmp(a.m, b.m) = -1) :
            a \in {aa}, b \in {bb}})

\* a % 1.0 for -1 < a < 1: fmod(a, 1.0) is a, and 1.0 is added to a negative
\* one
FMod1(aa) ==
    The({IF a.m # <<>> /\ a.sg = -1 THEN FAdd(a, FFromInt(1)) ELSE a : a \in {aa}})

\* int(a) for 0 <= a < 2^30
FTrunc(aa) ==
    The({NToInt(IF a.e < 0 THEN NShr(a.m, -a.e) ELSE NShl(a.m, a.e)) : a \in {aa}})

\* ------------------------------------------------------------------ colour
FMax(aa, bb) == The({IF FLess(a, b) THEN b ELSE a : a \in {aa}, b \in {bb}})
FMin(aa, bb) == The({IF FLess(b, a) THEN b ELSE a : a \in {aa}, b \in {bb}})

\* rgb_to_hsv after maxc, minc and rangec: h and s
HsvOfRange(r, g, b, maxc, minc, rangec) ==
    IF minc = maxc THEN [h |-> FZero, s |-> FZero]
    ELSE The({[h |-> FMod1(FDiv(IF r = maxc THEN FSub(bc, gc)
                                ELSE IF g = maxc THEN FSub(FAdd(FFromInt(2), rc), bc)
                                ELSE FSub(FAdd(FFromInt(4), gc), rc),
                                FFromInt(6))),
               s |-> FDiv(rangec, maxc)] :
                 rc \in {FDiv(FSub(maxc, r), rangec)},
                 gc \in {FDiv(FSub(maxc, g), rangec)},
                 bc \in {FDiv(FSub(maxc, b), rangec)}})

\* colorsys.rgb_to_hsv(r, g, b) on floats within [0,1]: h and s (v is not
\* used by the caller)
RgbToHsv(r, g, b) ==
    The({HsvOfRange(r, g, b, maxc, minc, FSub(maxc, minc)) :
            maxc \in {FMax(FMax(r, g), b)}, minc \in {FMin(FMin(r, g), b)}})

\* the payload of the hue h and the saturation s
HueSatPayload(h, s) ==
    U16BE(FTrunc(FMulInt(h, 360)) % 360) \o
        U16BE(ClampInt(FTrunc(FMulInt(s, 1000)), 0, 1000))

\* _rgb_to_hue_sat_payload(r, g, b)
RgbToHueSatPayload(r, g, b) ==
    The({HueSatPayload(hs.h, hs.s) :
            hs \in {The({RgbToHsv(fr, fg, fb) :
                            fr \in {FDiv(FFromInt(ClampInt(r, 0, 255)), FFromInt(255))},
                            fg \in {FDiv(FFromInt(ClampInt(g, 0, 255)), FFromInt(255))},
                            fb \in {FDiv(FFromInt(ClampInt(b, 0, 255)), FFromInt(255))}})}})

\* channel values below, inside and above [0,255]
ChannelInputs == {-5, 0, 3, 12, 15, 40, 50, 100, 255, 300}

\* every triple of those channels, and the colour (250, 125, 125)
ColorInputs ==
    {<<r, g, b>> : r \in ChannelInputs, g \in ChannelInputs, b \in ChannelInputs}
        \cup {<<250, 125, 125>>}

\* _set_rgb_async: the frame handed to _write_frame
SetRgbFrame(r, g, b) == BuildCommand(3, RgbToHueSatPayload(r, g, b)).frame

\* arguments of set_rgb and set_brightness in the session model, and the
\* frames of those colours
RgbInputs == {<<255, 100, 50>>}
RgbFrames == [c \in RgbInputs |-> SetRgbFrame(c[1], c[2], c[3])]
PercentInputs == {80}

\* arguments of set_scene in the session model: the scene "space-time", no
\* speed or speed 128
SceneInputs == {45}
SpeedInputs == {None, Some(128)}
\* names given to set_scene_by_name: one that resolves (to scene 45) after
\* strip, lower and replace, one that does not
SessionNames == {<<" ", "S", "p", "a", "c", "e", " ", "T", "i", "m", "e">>,
                 <<"f", "l", "o", "w", "s">>}
\* what set_scene_by_name makes of each of them
SessionScenes == [name \in SessionNames |-> ResolveSceneName(name)]

VARIABLES
    \* codec harness: the arguments of _build_command and what it returned
    bcCmd, bcPayload, bcOut,
    \* pure-function harness: the function applied, its argument, and what it
    \* returned (None until it is applied)
    pfOp, pfArg, pfOut,
    \* session fields
    loop,          \* self._loop: 0 = None, else the generation of the loop
    thread,        \* self._thread: 0 = None, else the generation of the thread
    closing,       \* self._closing
    client,        \* self._client: 0 = None, else a handle
    write,         \* self._write: None or Some(WriteConfig)
    last_notify,   \* self._last_notify: None or Some(bytes)
    notify_event,  \* self._notify_event
    \* transport
    handles,       \* state of each BleakClient object
    \* background threads
    loops,         \* where each _runner thread started so far is
    cb,            \* the transport callback each loop thread is inside
    tasks,         \* the coroutines submitted so far
    abandoned,     \* number of waits of the facade that timed out so far,
                   \* for a coroutine (run) and for a loop thread (start),
                   \* and how many the transport and the scheduler let time
                   \* out in this behaviour (most)
    \* caller's thread
    caller,
    \* history
    hist

codecVars == <<bcCmd, bcPayload, bcOut, pfOp, pfArg, pfOut>>
sessVars == <<loop, thread, closing, client, write, last_notify, notify_event,
              handles, loops, cb, tasks, abandoned, caller, hist>>
vars == <<bcCmd, bcPayload, bcOut, pfOp, pfArg, pfOut, loop, thread, closing,
          client, write, last_notify, notify_event, handles, loops, cb, tasks,
          abandoned, caller, hist>>

\* ------------------------------------------------------ notification parse
\* HexagonState(is_on, brightness_percent, raw), each field Optional
HexagonState(is_on, brightness, raw) ==
    [is_on |-> is_on, brightness_percent |-> brightness, raw |-> raw]

\* brightness accepted only within [0,100]
RangeChecked(b) == IF 0 <= b /\ b <= 100 THEN Some(b) ELSE None

\* _parse_state without the checksum test
ParseStateNoChecksum(raw) ==
    IF raw = None \/ raw[1] = <<>> THEN HexagonState(None, None, None)
    ELSE LET r == raw[1] IN
         IF Len(r) < 6 THEN HexagonState(None, None, raw)
         ELSE IF r[1] = 85 THEN
              IF r[4] # Len(r) THEN HexagonState(None, None, raw)
              ELSE HexagonState(Some(r[5] # 0),
                                IF Len(r) >= 7 THEN RangeChecked(r[6] - 5) ELSE None,
                                raw)
         ELSE IF r[1] # 86 THEN HexagonState(None, None, raw)
         ELSE HexagonState(Some(r[5] # 0),
                           IF Len(r) >= 8
                           THEN RangeChecked(((r[6] * 256 + r[7]) \div 10) - 5)
                           ELSE None,
                           raw)

\* _parse_state applying the length test of the 0x55 variant to 0x56 too
ParseStateLengthChecked(raw) ==
    IF raw = None \/ raw[1] = <<>> THEN HexagonState(None, None, None)
    ELSE LET r == raw[1] IN
         IF Len(r) < 6 THEN HexagonState(None, None, raw)
         ELSE IF SumBytes(r) % 256 # 255 THEN HexagonState(None, None, raw)
         ELSE IF r[4] # Len(r) THEN HexagonState(None, None, raw)
         ELSE IF r[1] = 85 THEN
              HexagonState(Some(r[5] # 0),
                           IF Len(r) >= 7 THEN RangeChecked(r[6] - 5) ELSE None,
                           raw)
         ELSE IF r[1] # 86 THEN HexagonState(None, None, raw)
         ELSE HexagonState(Some(r[5] # 0),
                           IF Len(r) >= 8
                           THEN RangeChecked(((r[6] * 256 + r[7]) \div 10) - 5)
                           ELSE None,
                           raw)

\* _parse_state taking the brightness byte of the 0x55 variant as it is
ParseStateNoRange(raw) ==
    IF raw = None \/ raw[1] = <<>> THEN HexagonState(None, None, None)
    ELSE LET r == raw[1] IN
         IF Len(r) < 6 THEN HexagonState(None, None, raw)
         ELSE IF SumBytes(r) % 256 # 255 THEN HexagonState(None, None, raw)
         ELSE IF r[1] = 85 THEN
              IF r[4] # Len(r) THEN HexagonState(None, None, raw)
              ELSE HexagonState(Some(r[5] # 0),
                                IF Len(r) >= 7 THEN Some(r[6] - 5) ELSE None,
                                raw)
         ELSE IF r[1] # 86 THEN HexagonState(None, None, raw)
         ELSE HexagonState(Some(r[5] # 0),
                           IF Len(r) >= 8
                           THEN RangeChecked(((r[6] * 256 + r[7]) \div 10) - 5)
                           ELSE None,
                           raw)

\* _parse_state, raw is Optional[bytes]
ParseState(raw) ==
    IF raw = None \/ raw[1] = <<>> THEN HexagonState(None, None, None)
    ELSE LET r == raw[1] IN
         IF Len(r) < 6 THEN HexagonState(None, None, raw)
         ELSE IF SumBytes(r) % 256 # 255 THEN HexagonState(None, None, raw)
         ELSE IF r[1] = 85 THEN
              IF r[4] # Len(r) THEN HexagonState(None, None, raw)
              ELSE HexagonState(Some(r[5] # 0),
                                IF Len(r) >= 7 THEN RangeChecked(r[6] - 5) ELSE None,
                                raw)
         ELSE IF r[1] # 86 THEN HexagonState(None, None, raw)
         ELSE HexagonState(Some(r[5] # 0),
                           IF Len(r) >= 8
                           THEN RangeChecked(((r[6] * 256 + r[7]) \div 10) - 5)
                           ELSE None,
                           raw)

\* a notification body completed by the byte that makes its sum 0xFF mod 256
WithChecksum(body) == body \o <<ChecksumFF(SumBytes(body))>>

\* notifications the device sends in the session model: a 0x55 status frame
\* (on, brightness 50) and a 0x56 sync frame (off, brightness 14)
NotifData == {WithChecksum(<<85, 0, 255, 7, 1, 55>>),
              WithChecksum(<<86, 0, 255, 6, 0, 0, 190>>)}

\* ------------------------------------------------- notification inputs
\* the last byte changed, so that the sum is no longer 0xFF mod 256
Corrupted(frame) ==
    [frame EXCEPT ![Len(frame)] = (@ + 1) % 256]

\* the sync frame of test_parse_state_tg609_sync_frame_0x56
TestSyncFrame ==
    <<86, 0, 255, 6, 1, 0, 190, 0, 8, 23, 127, 0, 8, 23, 127, 0, 80, 80, 9>>

\* 0x56 frames of 8 bytes and more: every length byte, power byte and
\* brightness word of the sets below
Sync56Bodies ==
    {<<86, 0, 255, b3, b4, hi, lo>> \o rest :
        b3 \in {0, 6, 8, 9, 255}, b4 \in {0, 1, 2, 255},
        hi \in {0, 4, 255}, lo \in {0, 35, 36, 49, 50, 190, 255},
        rest \in {<<>>, <<7>>}}

\* 0x55 frames, of 6 bytes and more, with the length byte right or wrong
Status55Bodies ==
    {<<85, 0, 255, b3, b4>> \o rest :
        b3 \in {6, 7, 8}, b4 \in {0, 1},
        rest \in {<<>>, <<4>>, <<5>>, <<55>>, <<105>>, <<106>>, <<55, 0>>}}

\* frames of another first byte, and 0x56 frames shorter than 8 bytes
OtherBodies ==
    {<<87, 0, 255, 6, 1>>, <<0, 0, 255, 7, 1, 55>>,
     <<86, 0, 255, 6, 1>>, <<86, 0, 255, 7, 0, 0>>}

ValidFrames ==
    {WithChecksum(b) : b \in Sync56Bodies \cup Status55Bodies \cup OtherBodies}
        \cup {TestSyncFrame}

\* inputs of shorter than 6 bytes, with the sum 0xFF mod 256 or not
ShortInputs ==
    {<<>>, <<255>>, <<85>>, <<86, 169>>, <<86, 0, 255, 6, 1>>,
     <<85, 0, 255, 5, 166>>, <<86, 0, 255, 5, 165>>}

ParseInputs ==
    ValidFrames \cup {Corrupted(f) : f \in ValidFrames} \cup ShortInputs

\* ---------------------------------------------------------------- transport
Handles == 1..MaxHandles

FreeHandles == {h \in Handles : handles[h].st = "free"}
NextHandle == CHOOSE h \in FreeHandles : \A g \in FreeHandles : h <= g

\* states of a BleakClient: "free" (not created, or dropped by the code
\* before it ever connected), "connecting", "linked" (connected), "open"
\* (connected, notify handler registered), "closed" (connection over: the
\* link was lost, or client.disconnect() was called)
\* BleakClient.is_connected
IsConnected(h) == h # 0 /\ handles[h].st \in {"linked", "open"}

\* what client.services holds when _connect_async looks the write
\* characteristic up: lookup is FALSE when client.services is None or has no
\* get_service; service and char tell whether get_service and
\* get_characteristic found theirs; props is ch.properties (Optional, a set)
Services(lookup, service, char, props) ==
    [lookup |-> lookup, service |-> service, char |-> char, props |-> props]

PropertiesInputs ==
    {None, Some({"read", "write"}), Some({"write-without-response"}),
     Some({"write", "write-without-response"})}

ServicesInputs ==
    {Services(FALSE, FALSE, FALSE, None),
     Services(TRUE, FALSE, FALSE, None),
     Services(TRUE, TRUE, FALSE, None)}
        \cup {Services(TRUE, TRUE, TRUE, p) : p \in PropertiesInputs}

\* the service and the characteristic are found, or are not looked up
Usable(sv) == ~sv.lookup \/ (sv.service /\ sv.char)

\* response = False; props = set(ch.properties or []);
\* response = "write-without-response" not in props
WriteNeedsResponse(sv) ==
    IF ~sv.lookup THEN FALSE
    ELSE "write-without-response" \notin (IF sv.props = None THEN {} ELSE sv.props[1])

\* _WriteConfig(service_uuid, char_uuid, response): the uuids are the
\* constructor's
WriteConfig(response) == [response |-> response]

\* -------------------------------------------------------------------- tasks
TaskIds == 1..MaxTasks

NewTask(kind, frames, g) ==
    [kind |-> kind, pc |-> "start", gen |-> g, attempt |-> 0, ret |-> "top",
     h |-> 0, resp |-> FALSE, frames |-> frames, fi |-> 1, res |-> "none",
     cancel |-> FALSE, detached |-> FALSE, nconn |-> 0, log |-> <<>>, reconn |-> 0, slept |-> <<>>]

\* a finished coroutine whose result its caller has taken, or gave up
\* waiting for
Consumed == [NewTask("none", <<>>, 0) EXCEPT !.pc = "done", !.res = "consumed"]

\* the coroutine ends: normally ("ok"), with an exception, or cancelled; of
\* one nobody waits for, only how it ended is kept
Finish(tk, res) ==
    IF tk.detached THEN [Consumed EXCEPT !.res = res]
    ELSE [tk EXCEPT !.pc = "done", !.res = res, !.h = 0, !.resp = FALSE]

\* _runner: loops[g] is where the g-th thread started is: "new" (started,
\* self._loop not assigned yet), "set" (self._loop assigned, ready not set
\* yet), "running" (ready set, inside run_forever), "stopping" (loop.stop()
\* was requested by _stop_loop_thread, run_forever has not returned yet),
\* "stopped" (run_forever returned and the pending tasks were cancelled: the
\* thread completes them and ends)
gen == Len(loops)
\* a thread is started by a connect() that then submits a coroutine, or whose
\* wait for the thread times out
LoopIds == 1..(MaxTasks + MaxLate)

\* a loop runs its callbacks inside run_forever and, after run_forever
\* returned, while _runner is still completing its pending tasks
LoopAlive(g) ==
    /\ g # 0
    /\ \/ loops[g] \in {"running", "stopping"}
       \/ /\ loops[g] = "stopped"
          /\ \E t \in 1..Len(tasks) : tasks[t].gen = g /\ tasks[t].pc # "done"

\* where a coroutine is when its loop thread is between two accesses to
\* shared state with no await in between: before the critical section of the
\* _ensure_connected that follows _on_disconnect ("e_lock"), after the
\* critical section of _ensure_connected, before it reads client.is_connected
\* ("e_check"), before the first critical section of _connect_async called
\* by _ensure_connected ("c_lock"), after the critical section at the head
\* of an attempt of _connect_async, before it reads existing.is_connected
\* ("c_check"), before the critical section of _write_frame that reads
\* self._client and self._write for the first write ("w_lock1") or for the
\* retried one ("w_lock2"), and inside the _on_disconnect that _write_frame
\* called, before self._notify_event.clear() ("w_failed")
MidPcs == {"e_lock", "e_check", "c_lock", "c_check", "w_lock1", "w_lock2",
           "w_failed"}

\* where a coroutine is suspended at an await
AwaitPcs == {"c_connect", "c_services", "c_svcdisc", "c_notify", "c_sleep",
             "w_write1", "w_write2", "d_disc"}

\* the callback of the transport each loop thread is inside: _notify_handler
\* before self._notify_event.set() ("set"), _on_disconnect before
\* self._notify_event.clear() ("clear")
NoCallback == [g \in LoopIds |-> "none"]

\* the thread of loop g is in the middle of a callback or of a step of a
\* coroutine
LoopBusy(g) ==
    \/ cb[g] # "none"
    \/ \E t \in 1..Len(tasks) : tasks[t].gen = g /\ tasks[t].pc \in MidPcs

\* loop g is ready to run its next callback or to resume a coroutine
LoopFree(g) == LoopAlive(g) /\ ~LoopBusy(g)

\* history of the latest facade call, kept until the next one.  Of a
\* get_state: the slot when it started, the last notification delivered before
\* it returned, whether one was delivered before its event wait ended, whether
\* one was delivered during its event wait, whether self._client changed.  Of
\* a connect or a disconnect: self._client when it was called (held)
NoHist == [slotAtStart |-> None, lastDelivered |-> None, beforeExpiry |-> FALSE,
           waitNotified |-> FALSE, connChanged |-> FALSE, held |-> 0]
InGetState == caller.op = "get_state" /\ caller.pc # "idle"
HistClientChanged == [hist EXCEPT !.connChanged = @ \/ InGetState]

\* _on_disconnect that forgets the WriteConfig
OnDisconnectKeepsWrite(h) ==
    /\ client' = 0
    /\ write' = write
    /\ last_notify' = None
    /\ hist' = IF client # 0 THEN HistClientChanged ELSE hist

\* _on_disconnect(_client) up to the release of the lock: the session's
\* fields are cleared whichever client h the callback is for;
\* self._notify_event.clear() is still to come
OnDisconnect(h) ==
    /\ client' = 0
    /\ write' = None
    /\ last_notify' = None
    /\ hist' = IF client # 0 THEN HistClientChanged ELSE hist

\* ------------------------------------------------ coroutines: connecting
\* where the code continues when _ensure_connected / _connect_async returns:
\* the end of the coroutine (connect, _ensure_connected submitted alone), or
\* _write_frame, whose next critical section reads self._client and
\* self._write
AfterEnsure(tk) ==
    CASE tk.ret = "top" -> Finish(tk, "ok")
      [] tk.ret = "pre" -> [tk EXCEPT !.pc = "w_lock1", !.h = 0, !.resp = FALSE]
      [] tk.ret = "re" -> [tk EXCEPT !.pc = "w_lock2", !.h = 0, !.resp = FALSE]

\* _connect_async looping over range(1, retries): one attempt short
ConnectHeadOneShort(t, tk, a) ==
    /\ tasks' = [tasks EXCEPT ![t] =
                    IF a >= ConnectRetries THEN Finish(tk, "ConnectFailed")
                    ELSE IF closing THEN Finish(tk, "ConnectAborted")
                    ELSE [tk EXCEPT !.pc = "c_check", !.attempt = a, !.h = client]]
    /\ handles' = handles

\* _connect_async, head of the loop for attempt a: the loop ends after
\* ConnectRetries attempts; else the critical section that reads
\* self._closing and self._client (into existing, kept in h)
ConnectHead(t, tk, a) ==
    /\ tasks' = [tasks EXCEPT ![t] =
                    IF a > ConnectRetries THEN Finish(tk, "ConnectFailed")
                    ELSE IF closing THEN Finish(tk, "ConnectAborted")
                    ELSE [tk EXCEPT !.pc = "c_check", !.attempt = a, !.h = client]]
    /\ handles' = handles

\* _ensure_connected: the critical section that reads self._client (into
\* client, kept in h)
EnsureConnected(t, tk) ==
    /\ tasks' = [tasks EXCEPT ![t] = [tk EXCEPT !.pc = "e_check", !.h = client]]
    /\ handles' = handles

\* a backoff of the same delay after every attempt
ToSleepConstant(tk) == [tk EXCEPT !.pc = "c_sleep", !.h = 0, !.resp = FALSE, !.cancel = FALSE,
                                  !.slept = Append(@, 1)]

\* except BaseException: last_err = e; await asyncio.sleep(delay * attempt);
\* slept lists the multiples of retry_delay_s the coroutine has slept
ToSleep(tk) == [tk EXCEPT !.pc = "c_sleep", !.h = 0, !.resp = FALSE, !.cancel = FALSE,
                          !.slept = Append(@, tk.attempt)]

\* coroutine t is suspended at the await pc and its loop is ready to resume
\* it
Suspended(t, pc) ==
    /\ t \in 1..Len(tasks)
    /\ tasks[t].pc = pc
    /\ ~tasks[t].cancel
    /\ LoopFree(tasks[t].gen)

\* the thread of its loop is running coroutine t, which is at pc
Running(t, pc) ==
    /\ t \in 1..Len(tasks)
    /\ tasks[t].pc = pc

\* the loop runs a submitted _connect_async
StartConnect(t) ==
    /\ Suspended(t, "start") /\ tasks[t].kind = "connect"
    /\ ConnectHead(t, tasks[t], 1)
    /\ UNCHANGED <<codecVars, abandoned, loop, thread, closing, client, write,
                   last_notify, notify_event, loops, cb, caller, hist>>

\* the loop runs a submitted _ensure_connected
StartEnsure(t) ==
    /\ Suspended(t, "start") /\ tasks[t].kind = "ensure"
    /\ EnsureConnected(t, tasks[t])
    /\ UNCHANGED <<codecVars, abandoned, loop, thread, closing, client, write,
                   last_notify, notify_event, loops, cb, caller, hist>>

\* _ensure_connected found no connected client: the first critical section
\* of the _connect_async it awaits
EnsureConnects(t) ==
    /\ Running(t, "c_lock")
    /\ ConnectHead(t, tasks[t], 1)
    /\ UNCHANGED <<codecVars, abandoned, loop, thread, closing, client, write,
                   last_notify, notify_event, loops, cb, caller, hist>>

\* an attempt that dials whatever existing is
ConnectAttemptAlwaysDials(t) ==
    /\ Running(t, "c_check")
    /\ FreeHandles # {}
    /\ handles' = [handles EXCEPT ![NextHandle] =
                      [st |-> "connecting", gen |-> tasks[t].gen]]
    /\ tasks' = [tasks EXCEPT ![t] =
                    [tasks[t] EXCEPT !.pc = "c_connect", !.h = NextHandle,
                                     !.nconn = @ + 1]]
    /\ UNCHANGED <<codecVars, abandoned, loop, thread, closing, client, write,
                   last_notify, notify_event, loops, cb, caller, hist>>

\* _connect_async after that critical section, the lock released: it
\* returns when existing.is_connected; else BleakClient(...) and await
\* client.connect() (followed only while MaxHandles leaves a BleakClient)
ConnectAttempt(t) ==
    /\ Running(t, "c_check")
    /\ IF IsConnected(tasks[t].h)
       THEN /\ tasks' = [tasks EXCEPT ![t] = AfterEnsure(tasks[t])]
            /\ handles' = handles
       ELSE /\ FreeHandles # {}
            /\ handles' = [handles EXCEPT ![NextHandle] =
                              [st |-> "connecting", gen |-> tasks[t].gen]]
            /\ tasks' = [tasks EXCEPT ![t] =
                            [tasks[t] EXCEPT !.pc = "c_connect", !.h = NextHandle,
                                             !.nconn = @ + 1]]
    /\ UNCHANGED <<codecVars, abandoned, loop, thread, closing, client, write,
                   last_notify, notify_event, loops, cb, caller, hist>>

\* _ensure_connected after its critical section, the lock released: it
\* returns when client.is_connected, else await self._connect_async(), whose
\* first critical section is the coroutine's next step
EnsureChecks(t) ==
    /\ Running(t, "e_check")
    /\ tasks' = [tasks EXCEPT ![t] =
                    IF IsConnected(tasks[t].h) THEN AfterEnsure(tasks[t])
                    ELSE [tasks[t] EXCEPT !.pc = "c_lock", !.h = 0]]
    /\ UNCHANGED <<codecVars, abandoned, loop, thread, closing, client, write,
                   last_notify, notify_event, handles, loops, cb, caller, hist>>

\* await client.connect() raises
ConnectFails(t) ==
    /\ Suspended(t, "c_connect")
    /\ handles' = [handles EXCEPT ![tasks[t].h].st = "free"]
    /\ tasks' = [tasks EXCEPT ![t] = ToSleep(tasks[t])]
    /\ UNCHANGED <<codecVars, abandoned, loop, thread, closing, client, write,
                   last_notify, notify_event, loops, cb, caller, hist>>

\* _connect_async from the lookup of the write characteristic to its next
\* await: client.disconnect() when the service or the characteristic is not
\* found, else start_notify(), with the response flag it will store
AfterLookup(tk, sv) ==
    IF Usable(sv)
    THEN [tk EXCEPT !.pc = "c_notify", !.resp = WriteNeedsResponse(sv)]
    ELSE [tk EXCEPT !.pc = "c_svcdisc"]

\* await client.connect() returns with client.services filled, and the
\* write characteristic is found (or not looked up); next await start_notify
ConnectSucceeds(t) ==
    /\ Suspended(t, "c_connect")
    /\ \E sv \in ServicesInputs :
          /\ Usable(sv)
          /\ tasks' = [tasks EXCEPT ![t] = AfterLookup(tasks[t], sv)]
    /\ handles' = [handles EXCEPT ![tasks[t].h].st = "linked"]
    /\ UNCHANGED <<codecVars, abandoned, loop, thread, closing, client, write,
                   last_notify, notify_event, loops, cb, caller, hist>>

\* await client.connect() returns with client.services filled, but the
\* service or the characteristic is not found: await client.disconnect()
\* before raising
ServiceNotFound(t) ==
    /\ Suspended(t, "c_connect")
    /\ \E sv \in ServicesInputs :
          /\ ~Usable(sv)
          /\ tasks' = [tasks EXCEPT ![t] = AfterLookup(tasks[t], sv)]
    /\ handles' = [handles EXCEPT ![tasks[t].h].st = "linked"]
    /\ UNCHANGED <<codecVars, abandoned, loop, thread, closing, client, write,
                   last_notify, notify_event, loops, cb, caller, hist>>

\* await client.connect() returns with client.services empty on a backend
\* that has _get_services: await get_services()
ConnectDiscovers(t) ==
    /\ Suspended(t, "c_connect")
    /\ tasks' = [tasks EXCEPT ![t].pc = "c_services"]
    /\ handles' = [handles EXCEPT ![tasks[t].h].st = "linked"]
    /\ UNCHANGED <<codecVars, abandoned, loop, thread, closing, client, write,
                   last_notify, notify_event, loops, cb, caller, hist>>

\* await get_services() returns: client.services is read again and the
\* write characteristic looked up
ServicesDiscovered(t) ==
    /\ Suspended(t, "c_services")
    /\ \E sv \in ServicesInputs :
          tasks' = [tasks EXCEPT ![t] = AfterLookup(tasks[t], sv)]
    /\ UNCHANGED <<codecVars, abandoned, loop, thread, closing, client, write,
                   last_notify, notify_event, handles, loops, cb, caller, hist>>

\* await get_services() raises: except BaseException, the backoff sleep; the
\* client stays connected and nothing refers to it any more
DiscoveryFails(t) ==
    /\ Suspended(t, "c_services")
    /\ tasks' = [tasks EXCEPT ![t] = ToSleep(tasks[t])]
    /\ UNCHANGED <<codecVars, abandoned, loop, thread, closing, client, write,
                   last_notify, notify_event, handles, loops, cb, caller, hist>>

\* that client.disconnect() is over: the client is closed and the
\* HexagonLightError is caught
ServiceDisconnected(t) ==
    /\ Suspended(t, "c_svcdisc")
    /\ handles' = [handles EXCEPT ![tasks[t].h].st = "closed"]
    /\ tasks' = [tasks EXCEPT ![t] = ToSleep(tasks[t])]
    /\ UNCHANGED <<codecVars, abandoned, loop, thread, closing, client, write,
                   last_notify, notify_event, loops, cb, caller, hist>>

\* await client.start_notify() is over: the client and the WriteConfig are
\* installed and the event cleared in one critical section, and
\* _connect_async returns.  A failed start_notify is swallowed and leaves a
\* connection on which Notify never happens, a behaviour the model has in any
\* case.
Installed(t) ==
    /\ Suspended(t, "c_notify")
    /\ handles' = [handles EXCEPT ![tasks[t].h].st =
                                     IF @ = "linked" THEN "open" ELSE @]
    /\ client' = tasks[t].h
    /\ write' = Some(WriteConfig(tasks[t].resp))
    /\ notify_event' = FALSE
    /\ tasks' = [tasks EXCEPT ![t] = AfterEnsure(tasks[t])]
    /\ hist' = HistClientChanged
    /\ UNCHANGED <<codecVars, abandoned, loop, thread, closing, last_notify,
                   loops, cb, caller>>

\* asyncio.sleep() is over: next attempt
SleepDone(t) ==
    /\ Suspended(t, "c_sleep")
    /\ ConnectHead(t, tasks[t], tasks[t].attempt + 1)
    /\ UNCHANGED <<codecVars, abandoned, loop, thread, closing, client, write,
                   last_notify, notify_event, loops, cb, caller, hist>>

\* --------------------------------------------------- coroutines: writing
\* the loop runs a submitted command coroutine: _build_command was applied
\* by the facade's coroutine, _write_frame starts with the critical section
\* of _ensure_connected
StartWrite(t) ==
    /\ Suspended(t, "start") /\ tasks[t].kind = "write"
    /\ EnsureConnected(t, [tasks[t] EXCEPT !.ret = "pre"])
    /\ UNCHANGED <<codecVars, abandoned, loop, thread, closing, client, write,
                   last_notify, notify_event, loops, cb, caller, hist>>

\* the critical section of _write_frame that reads self._client and
\* self._write, up to the write_gatt_char it awaits: err is what it raises
\* when one of them is None, pc the write
ReadClient(tk, err, pc) ==
    IF client = 0 \/ write = None THEN Finish(tk, err)
    ELSE [tk EXCEPT !.pc = pc, !.h = client, !.resp = write[1].response]

\* _write_frame after its first _ensure_connected returned: "Not connected",
\* or the first write_gatt_char
WriteReads(t) ==
    /\ Running(t, "w_lock1")
    /\ tasks' = [tasks EXCEPT ![t] = ReadClient(tasks[t], "NotConnected", "w_write1")]
    /\ UNCHANGED <<codecVars, abandoned, loop, thread, closing, client, write,
                   last_notify, notify_event, handles, loops, cb, caller, hist>>

\* a write_gatt_char call of the coroutine is over: which _write_frame call
\* of the coroutine made it (fi), on which client, with which bytes, and
\* whether it returned
WriteLogged(tk, ok) ==
    [tk EXCEPT !.log = Append(@, [fi |-> tk.fi, h |-> tk.h,
                                  frame |-> tk.frames[tk.fi], ok |-> ok])]

\* the writes made by the i-th _write_frame call of a coroutine
FrameLog(tk, i) == SelectSeq(tk.log, LAMBDA e : e.fi = i)

\* _write_frame returned: the coroutine ends, or calls _write_frame for its
\* next frame, up to the critical section of its _ensure_connected
FrameWritten(t, tk) ==
    IF tk.fi < Len(tk.frames)
    THEN EnsureConnected(t, [tk EXCEPT !.fi = @ + 1, !.ret = "pre", !.h = 0, !.resp = FALSE,
                                       !.reconn = 0])
    ELSE /\ tasks' = [tasks EXCEPT ![t] = Finish(tk, "ok")]
         /\ handles' = handles

\* the first write_gatt_char returns
WriteSucceeds(t) ==
    /\ Suspended(t, "w_write1")
    /\ IsConnected(tasks[t].h)
    /\ FrameWritten(t, WriteLogged(tasks[t], TRUE))
    /\ UNCHANGED <<codecVars, abandoned, loop, thread, closing, client, write,
                   last_notify, notify_event, loops, cb, caller, hist>>

\* the first write_gatt_char raises: _on_disconnect(client), up to the
\* release of the lock; the coroutine is not suspended, it goes on with the
\* loop thread's next step (followed only while MaxHandles leaves a
\* BleakClient for the reconnect)
WriteFails(t) ==
    /\ Suspended(t, "w_write1")
    /\ FreeHandles # {}
    /\ OnDisconnect(tasks[t].h)
    /\ tasks' = [tasks EXCEPT ![t] =
                    [WriteLogged(tasks[t], FALSE) EXCEPT !.pc = "w_failed"]]
    /\ UNCHANGED <<codecVars, abandoned, loop, thread, closing, notify_event,
                   handles, loops, cb, caller>>

\* the rest of that _on_disconnect, self._notify_event.clear(); the second
\* _ensure_connected of _write_frame is next
WriteReconnects(t) ==
    /\ Running(t, "w_failed")
    /\ notify_event' = FALSE
    /\ tasks' = [tasks EXCEPT ![t] =
                    [tasks[t] EXCEPT !.pc = "e_lock", !.ret = "re", !.reconn = @ + 1,
                                     !.h = 0, !.resp = FALSE]]
    /\ UNCHANGED <<codecVars, abandoned, loop, thread, closing, client, write,
                   last_notify, handles, loops, cb, caller, hist>>

\* that _ensure_connected: its critical section
ReconnectEnsures(t) ==
    /\ Running(t, "e_lock")
    /\ EnsureConnected(t, tasks[t])
    /\ UNCHANGED <<codecVars, abandoned, loop, thread, closing, client, write,
                   last_notify, notify_event, loops, cb, caller, hist>>

\* _write_frame after that _ensure_connected returned: "Reconnect failed", or
\* the retried write_gatt_char
RetryReads(t) ==
    /\ Running(t, "w_lock2")
    /\ tasks' = [tasks EXCEPT ![t] = ReadClient(tasks[t], "ReconnectFailed", "w_write2")]
    /\ UNCHANGED <<codecVars, abandoned, loop, thread, closing, client, write,
                   last_notify, notify_event, handles, loops, cb, caller, hist>>

\* the retried write_gatt_char returns
RetrySucceeds(t) ==
    /\ Suspended(t, "w_write2")
    /\ IsConnected(tasks[t].h)
    /\ FrameWritten(t, WriteLogged(tasks[t], TRUE))
    /\ UNCHANGED <<codecVars, abandoned, loop, thread, closing, client, write,
                   last_notify, notify_event, loops, cb, caller, hist>>

\* a retried write whose failure is followed by one more write
RetryFailsAgain(t) ==
    /\ Suspended(t, "w_write2")
    /\ tasks' = [tasks EXCEPT ![t] = WriteLogged(tasks[t], FALSE)]
    /\ UNCHANGED <<codecVars, abandoned, loop, thread, closing, client, write,
                   last_notify, notify_event, handles, loops, cb, caller, hist>>

\* a retried write whose failure is swallowed: the coroutine goes on
RetryFailsContinues(t) ==
    /\ Suspended(t, "w_write2")
    /\ FrameWritten(t, WriteLogged(tasks[t], FALSE))
    /\ UNCHANGED <<codecVars, abandoned, loop, thread, closing, client, write,
                   last_notify, notify_event, loops, cb, caller, hist>>

\* what the transport raises from write_gatt_char: an exception of its own,
\* or the builtin TimeoutError
WriteErrors == {"WriteError", "WriteTimeout"}

\* the retried write_gatt_char raises: the exception leaves _write_frame and
\* ends the coroutine
RetryFails(t) ==
    /\ Suspended(t, "w_write2")
    /\ \E e \in WriteErrors :
          tasks' = [tasks EXCEPT ![t] = Finish(WriteLogged(tasks[t], FALSE), e)]
    /\ UNCHANGED <<codecVars, abandoned, loop, thread, closing, client, write,
                   last_notify, notify_event, handles, loops, cb, caller, hist>>

\* ----------------------------------------------- coroutines: disconnecting
\* _disconnect_async up to await client.disconnect()
StartDisconnect(t) ==
    /\ Suspended(t, "start") /\ tasks[t].kind = "disconnect"
    /\ client' = 0
    /\ write' = None
    /\ last_notify' = None
    /\ tasks' = [tasks EXCEPT ![t] =
                    IF client # 0
                    THEN [tasks[t] EXCEPT !.pc = "d_disc", !.h = client]
                    ELSE Finish(tasks[t], "ok")]
    /\ hist' = IF client # 0 THEN HistClientChanged ELSE hist
    /\ UNCHANGED <<codecVars, abandoned, loop, thread, closing, notify_event,
                   handles, loops, cb, caller>>

\* client.disconnect() is over (an exception is swallowed): the client is
\* closed
DisconnectDone(t) ==
    /\ Suspended(t, "d_disc")
    /\ handles' = [handles EXCEPT ![tasks[t].h].st = "closed"]
    /\ tasks' = [tasks EXCEPT ![t] = Finish(tasks[t], "ok")]
    /\ UNCHANGED <<codecVars, abandoned, loop, thread, closing, client, write,
                   last_notify, notify_event, loops, cb, caller, hist>>

\* _runner, run_forever() returned (loop.stop() was requested and no
\* callback of the loop is running): task.cancel() for every pending task
RunnerCancels(g) ==
    /\ g \in 1..gen
    /\ loops[g] = "stopping"
    /\ ~LoopBusy(g)
    /\ loops' = [loops EXCEPT ![g] = "stopped"]
    /\ tasks' = [t \in 1..Len(tasks) |->
                    IF tasks[t].gen = g /\ tasks[t].pc # "done"
                    THEN [tasks[t] EXCEPT !.cancel = TRUE]
                    ELSE tasks[t]]
    /\ UNCHANGED <<codecVars, abandoned, loop, thread, closing, client, write,
                   last_notify, notify_event, handles, cb, caller, hist>>

\* _runner, run_until_complete(gather(*pending)): CancelledError is thrown
\* into the await the task is suspended at.  _connect_async catches it
\* (except BaseException) unless it is sleeping; everywhere else it ends the
\* task.
Cancelled(t) ==
    /\ t \in 1..Len(tasks)
    /\ tasks[t].cancel
    /\ tasks[t].pc \notin {"done"} \cup MidPcs
    /\ LoopFree(tasks[t].gen)
    /\ IF tasks[t].pc \in {"c_connect", "c_services", "c_svcdisc", "c_notify"}
       THEN /\ tasks' = [tasks EXCEPT ![t] = ToSleep(tasks[t])]
            /\ handles' = IF tasks[t].pc = "c_connect"
                          THEN [handles EXCEPT ![tasks[t].h].st = "free"]
                          ELSE handles
       ELSE /\ tasks' = [tasks EXCEPT ![t] = Finish(tasks[t], "cancelled")]
            /\ handles' = handles
    /\ UNCHANGED <<codecVars, abandoned, loop, thread, closing, client, write,
                   last_notify, notify_event, loops, cb, caller, hist>>

\* ------------------------------------------------------ transport callbacks
\* a notification is delivered by the two steps of _notify_handler.  One
\* stored during a get_state() call is recorded as the last one delivered
\* and, before the event wait has ended, as one delivered before expiry
Delivered(data) ==
    IF InGetState
    THEN [hist EXCEPT !.lastDelivered = Some(data),
                      !.beforeExpiry = @ \/ caller.pc \in {"gs_run", "wait", "gs_wait"}]
    ELSE hist

\* one whose self._notify_event.set() comes during a get_state() call is
\* recorded too, and when that is during the event wait, as one delivered
\* during the wait
Signalled ==
    IF InGetState
    THEN [hist EXCEPT !.lastDelivered = last_notify,
                      !.beforeExpiry = @ \/ caller.pc \in {"gs_run", "wait", "gs_wait"},
                      !.waitNotified = @ \/ caller.pc = "gs_wait"]
    ELSE hist

\* _notify_handler up to the release of the lock: a notification arrives on
\* a subscribed connection, on the loop of its client, and is stored;
\* self._notify_event.set() is still to come
Notify(h, data) ==
    /\ handles[h].st = "open"
    /\ LoopFree(handles[h].gen)
    /\ last_notify' = Some(data)
    /\ cb' = [cb EXCEPT ![handles[h].gen] = "set"]
    /\ hist' = Delivered(data)
    /\ UNCHANGED <<codecVars, abandoned, loop, thread, closing, client, write,
                   notify_event, handles, loops, tasks, caller>>

\* the rest of _notify_handler: self._notify_event.set()
EventSet(g) ==
    /\ cb[g] = "set"
    /\ notify_event' = TRUE
    /\ cb' = [cb EXCEPT ![g] = "none"]
    /\ hist' = Signalled
    /\ UNCHANGED <<codecVars, abandoned, loop, thread, closing, client, write,
                   last_notify, handles, loops, tasks, caller>>

\* the connection of a client is over: the link is lost, or the transport
\* reports the disconnection that a client.disconnect() being awaited asked
\* for.  The backend clears is_connected and calls disconnected_callback in
\* one callback of the client's loop (_on_disconnect, up to the release of
\* the lock); a loop that no longer runs calls nothing
Drop(h) ==
    /\ IsConnected(h)
    /\ handles' = [handles EXCEPT ![h].st = "closed"]
    /\ IF LoopAlive(handles[h].gen)
       THEN /\ LoopFree(handles[h].gen)
            /\ OnDisconnect(h)
            /\ cb' = [cb EXCEPT ![handles[h].gen] = "clear"]
       ELSE UNCHANGED <<client, write, last_notify, cb, hist>>
    /\ UNCHANGED <<codecVars, abandoned, loop, thread, closing, notify_event,
                   loops, tasks, caller>>

\* the rest of an _on_disconnect the transport called:
\* self._notify_event.clear()
EventCleared(g) ==
    /\ cb[g] = "clear"
    /\ notify_event' = FALSE
    /\ cb' = [cb EXCEPT ![g] = "none"]
    /\ UNCHANGED <<codecVars, abandoned, loop, thread, closing, client, write,
                   last_notify, handles, loops, tasks, caller, hist>>

\* ------------------------------------------------------------------ facade
Unknown == HexagonState(None, None, None)

\* what a facade call gave its caller: nothing (kind "ok"), an exception
\* (kind "err", err the exception), a state (kind "state", err the branch of
\* get_state that built it); pre: disconnect() was called on a session that
\* was Disconnected
Returned(op, kind, err, state, pre) ==
    [op |-> op, kind |-> kind, err |-> err, state |-> state, pre |-> pre]
NoReturn == Returned("none", "none", "none", Unknown, FALSE)

Idle(ret) == [pc |-> "idle", op |-> "none", task |-> 0, rs |-> FALSE,
              pre |-> FALSE, ret |-> ret]
Waiting(op, task, rs, pre) ==
    [pc |-> "wait", op |-> op, task |-> task, rs |-> rs, pre |-> pre,
     ret |-> NoReturn]
\* connect() inside ready.wait() of _start_loop_thread
Starting == [Waiting("connect", 0, FALSE, FALSE) EXCEPT !.pc = "starting"]
\* a facade call between its first access to the session and its _run: pc
\* is "c_run" (connect), "d_run" (disconnect), "gs_run" (get_state)
Entered(op, pc, rs, pre) == [Waiting(op, 0, rs, pre) EXCEPT !.pc = pc]

\* no wait has timed out, and most of them may
NoneAbandoned(most) == [run |-> 0, start |-> 0, most |-> most]
\* a wait for a coroutine (fut.result) may still time out
MayTimeOut ==
    /\ abandoned.run < MaxAbandoned
    /\ abandoned.run + abandoned.start < abandoned.most
\* a wait for a loop thread (ready.wait) may still time out
MayStartLate ==
    /\ abandoned.start < MaxLate
    /\ abandoned.run + abandoned.start < abandoned.most

\* the session holds no loop, no transport handle and no WriteConfig
Disconnected == loop = 0 /\ client = 0 /\ write = None

\* _run: asyncio.run_coroutine_threadsafe(coro, loop)
Submit(kind, frames, g) == tasks' = Append(tasks, NewTask(kind, frames, g))

\* fut.result() returned: the finished coroutine is dropped
Taken == [tasks EXCEPT ![caller.task] = Consumed]

\* connect(): the critical section of _start_loop_thread, which returns when
\* self._thread is alive (self._thread is reset by whatever stops a loop, so
\* a thread it refers to is alive), else withdraws self._closing; then, on
\* the caller's thread alone, self._thread = thread and thread.start()
CallConnect ==
    /\ caller.pc = "idle"
    /\ Len(tasks) < MaxTasks
    /\ IF thread # 0
       THEN /\ caller' = Entered("connect", "c_run", FALSE, FALSE)
            /\ UNCHANGED <<closing, thread, loops>>
       ELSE /\ closing' = FALSE
            /\ thread' = gen + 1
            /\ loops' = Append(loops, "new")
            /\ caller' = Starting
    /\ hist' = [NoHist EXCEPT !.held = client]
    /\ UNCHANGED <<codecVars, abandoned, loop, client, write, last_notify,
                   notify_event, handles, cb, tasks>>

\* _runner: with self._state_lock: self._loop = loop
RunnerSetsLoop(g) ==
    /\ g \in 1..gen
    /\ loops[g] = "new"
    /\ loop' = g
    /\ loops' = [loops EXCEPT ![g] = "set"]
    /\ UNCHANGED <<codecVars, abandoned, thread, closing, client, write,
                   last_notify, notify_event, handles, cb, tasks, caller, hist>>

\* _runner: ready.set(); loop.run_forever()
RunnerReady(g) ==
    /\ g \in 1..gen
    /\ loops[g] = "set"
    /\ loops' = [loops EXCEPT ![g] = "running"]
    /\ UNCHANGED <<codecVars, abandoned, loop, thread, closing, client, write,
                   last_notify, notify_event, handles, cb, tasks, caller, hist>>

\* ready.wait() returns True: _start_loop_thread returns
ConnectStarted ==
    /\ caller.pc = "starting"
    /\ loops[thread] = "running"
    /\ caller' = [caller EXCEPT !.pc = "c_run"]
    /\ UNCHANGED <<codecVars, abandoned, loop, thread, closing, client, write,
                   last_notify, notify_event, handles, loops, cb, tasks, hist>>

\* connect(): _run(_connect_async()), the critical section that reads
\* self._loop, and the submission
ConnectRuns ==
    /\ caller.pc = "c_run"
    /\ IF loop = 0
       THEN /\ caller' = Idle(Returned("connect", "err", "NotConnected",
                                       Unknown, FALSE))
            /\ tasks' = tasks
       ELSE /\ Submit("connect", <<>>, loop)
            /\ caller' = Waiting("connect", Len(tasks) + 1, FALSE, FALSE)
    /\ UNCHANGED <<codecVars, abandoned, loop, thread, closing, client, write,
                   last_notify, notify_event, handles, loops, cb, hist>>

\* ready.wait(timeout=2.0) returns False: "Failed to start BLE event loop
\* thread"; the thread goes on
ConnectStartFails ==
    /\ caller.pc = "starting"
    /\ loops[thread] \in {"new", "set"}
    /\ MayStartLate
    /\ abandoned' = [abandoned EXCEPT !.start = @ + 1]
    /\ caller' = Idle(Returned("connect", "err", "LoopStartFailed", Unknown, FALSE))
    /\ UNCHANGED <<codecVars, loop, thread, closing, client, write, last_notify,
                   notify_event, handles, loops, cb, tasks, hist>>

\* disconnect(): with self._state_lock: self._closing = True
CallDisconnect ==
    /\ caller.pc = "idle"
    /\ loop # 0 => Len(tasks) < MaxTasks
    /\ closing' = TRUE
    /\ caller' = Entered("disconnect", "d_run", FALSE, Disconnected)
    /\ hist' = [NoHist EXCEPT !.held = client]
    /\ UNCHANGED <<codecVars, abandoned, loop, thread, client, write,
                   last_notify, notify_event, handles, loops, cb, tasks>>

\* disconnect(): _run(_disconnect_async()), the critical section that reads
\* self._loop, and the submission; with no loop _run raises, and what it
\* raised is kept (ret) until the finally clause is over
DisconnectRuns ==
    /\ caller.pc = "d_run"
    /\ IF loop = 0
       THEN /\ caller' = [caller EXCEPT !.pc = "d_stop", !.ret =
                             Returned("disconnect", "err", "NotConnected",
                                      Unknown, caller.pre)]
            /\ tasks' = tasks
       ELSE /\ Len(tasks) < MaxTasks
            /\ Submit("disconnect", <<>>, loop)
            /\ caller' = [caller EXCEPT !.pc = "wait", !.task = Len(tasks) + 1]
    /\ UNCHANGED <<codecVars, abandoned, loop, thread, closing, client, write,
                   last_notify, notify_event, handles, loops, cb, hist>>

\* turn_on() / turn_off(): _run(_send_simple_power(on))
CallPower(on) ==
    /\ caller.pc = "idle"
    /\ IF loop = 0
       THEN /\ caller' = Idle(Returned("power", "err", "NotConnected",
                                       Unknown, FALSE))
            /\ tasks' = tasks
       ELSE /\ Len(tasks) < MaxTasks
            /\ Submit("write", <<PowerFrame(on)>>, loop)
            /\ caller' = Waiting("power", Len(tasks) + 1, FALSE, FALSE)
    /\ hist' = NoHist
    /\ UNCHANGED <<codecVars, abandoned, loop, thread, closing, client, write,
                   last_notify, notify_event, handles, loops, cb>>

\* set_scene(scene, speed=speed): _run(_set_scene_async(int(scene), speed))
CallSetScene(scene, speed) ==
    /\ caller.pc = "idle"
    /\ IF loop = 0
       THEN /\ caller' = Idle(Returned("scene", "err", "NotConnected",
                                       Unknown, FALSE))
            /\ tasks' = tasks
       ELSE /\ Len(tasks) < MaxTasks
            /\ Submit("write", SetSceneFrames(scene, speed), loop)
            /\ caller' = Waiting("scene", Len(tasks) + 1, FALSE, FALSE)
    /\ hist' = NoHist
    /\ UNCHANGED <<codecVars, abandoned, loop, thread, closing, client, write,
                   last_notify, notify_event, handles, loops, cb>>

\* set_scene_by_name(name, speed=speed): the name is resolved, then
\* self.set_scene(scene, speed=speed)
CallSetSceneByName(name, speed) ==
    IF SessionScenes[name].err = "none"
    THEN CallSetScene(SessionScenes[name].scene, speed)
    ELSE /\ caller.pc = "idle"
         /\ caller' = Idle(Returned("scene_by_name", "err",
                                    SessionScenes[name].err, Unknown, FALSE))
         /\ hist' = NoHist
         /\ UNCHANGED <<codecVars, abandoned, loop, thread, closing, client,
                        write, last_notify, notify_event, handles, loops, cb,
                        tasks>>

\* set_brightness(percent): _run(_set_brightness_async(percent))
CallSetBrightness(percent) ==
    /\ caller.pc = "idle"
    /\ IF loop = 0
       THEN /\ caller' = Idle(Returned("brightness", "err", "NotConnected",
                                       Unknown, FALSE))
            /\ tasks' = tasks
       ELSE /\ Len(tasks) < MaxTasks
            /\ Submit("write", <<SetBrightnessFrame(percent)>>, loop)
            /\ caller' = Waiting("brightness", Len(tasks) + 1, FALSE, FALSE)
    /\ hist' = NoHist
    /\ UNCHANGED <<codecVars, abandoned, loop, thread, closing, client, write,
                   last_notify, notify_event, handles, loops, cb>>

\* set_rgb(r, g, b): _run(_set_rgb_async(r, g, b))
CallSetRgb(c) ==
    /\ caller.pc = "idle"
    /\ IF loop = 0
       THEN /\ caller' = Idle(Returned("rgb", "err", "NotConnected",
                                       Unknown, FALSE))
            /\ tasks' = tasks
       ELSE /\ Len(tasks) < MaxTasks
            /\ Submit("write", <<RgbFrames[c]>>, loop)
            /\ caller' = Waiting("rgb", Len(tasks) + 1, FALSE, FALSE)
    /\ hist' = NoHist
    /\ UNCHANGED <<codecVars, abandoned, loop, thread, closing, client, write,
                   last_notify, notify_event, handles, loops, cb>>

\* get_state() that does not clear the event first
CallGetStateNoClear(rs) ==
    /\ caller.pc = "idle"
    /\ loop # 0 => Len(tasks) < MaxTasks
    /\ notify_event' = notify_event
    /\ hist' = [NoHist EXCEPT !.slotAtStart = last_notify]
    /\ caller' = Entered("get_state", "gs_run", rs, FALSE)
    /\ UNCHANGED <<codecVars, abandoned, loop, thread, closing, client, write,
                   last_notify, handles, loops, cb, tasks>>

\* get_state(): self._notify_event.clear()
CallGetState(rs) ==
    /\ caller.pc = "idle"
    /\ loop # 0 => Len(tasks) < MaxTasks
    /\ notify_event' = FALSE
    /\ hist' = [NoHist EXCEPT !.slotAtStart = last_notify]
    /\ caller' = Entered("get_state", "gs_run", rs, FALSE)
    /\ UNCHANGED <<codecVars, abandoned, loop, thread, closing, client, write,
                   last_notify, handles, loops, cb, tasks>>

\* get_state(): _run(_ensure_connected()), the critical section that reads
\* self._loop, and the submission; the exception _run raises with no loop is
\* caught
GetStateRuns ==
    /\ caller.pc = "gs_run"
    /\ IF loop = 0
       THEN /\ caller' = Idle(Returned("get_state", "state", "failed",
                                       Unknown, FALSE))
            /\ tasks' = tasks
       ELSE /\ Len(tasks) < MaxTasks
            /\ Submit("ensure", <<>>, loop)
            /\ caller' = [caller EXCEPT !.pc = "wait", !.task = Len(tasks) + 1]
    /\ UNCHANGED <<codecVars, abandoned, loop, thread, closing, client, write,
                   last_notify, notify_event, handles, loops, cb, hist>>

TaskDone(t) == t \in 1..Len(tasks) /\ tasks[t].pc = "done"

\* fut.result(timeout) expires before the coroutine is done, wherever the
\* coroutine is: not started yet, inside a step of its loop thread, or
\* suspended at an await
TimedOut(t) ==
    /\ MayTimeOut
    /\ t \in 1..Len(tasks)
    /\ tasks[t].pc # "done"

\* the exception _run raises for the one that ended the coroutine: except
\* TimeoutError turns the TimeoutError of the transport, too, into "Operation
\* timed out"; any other exception goes through
RunError(res) == IF res = "WriteTimeout" THEN "Timeout" ELSE res

\* a _run that cancels the future when its wait times out
AbandonedCancelled ==
    [tasks EXCEPT ![caller.task].detached = TRUE, ![caller.task].cancel = TRUE]

\* fut.result(timeout) raised: nobody waits for the coroutine any more
Abandoned == [tasks EXCEPT ![caller.task].detached = TRUE]

\* _run returns to connect(), turn_on(), turn_off(), set_scene(),
\* set_brightness(), set_rgb(): None or the exception
CallReturns ==
    /\ caller.pc = "wait"
    /\ caller.op \in {"connect", "power", "scene", "brightness", "rgb"}
    /\ \/ /\ TaskDone(caller.task)
          /\ caller' = Idle(IF tasks[caller.task].res = "ok"
                            THEN Returned(caller.op, "ok", "none", Unknown, caller.pre)
                            ELSE Returned(caller.op, "err",
                                          RunError(tasks[caller.task].res),
                                          Unknown, caller.pre))
          /\ tasks' = Taken
          /\ abandoned' = abandoned
       \/ /\ TimedOut(caller.task)
          /\ caller' = Idle(Returned(caller.op, "err", "Timeout", Unknown, caller.pre))
          /\ tasks' = Abandoned
          /\ abandoned' = [abandoned EXCEPT !.run = @ + 1]
    /\ UNCHANGED <<codecVars, loop, thread, closing, client, write,
                   last_notify, notify_event, handles, loops, cb, hist>>

\* _stop_loop_thread, its critical section: self._loop = None,
\* self._thread = None; and when both were set,
\* loop.call_soon_threadsafe(loop.stop) on what self._loop was
StopLoop ==
    /\ loop' = 0
    /\ thread' = 0
    /\ loops' = IF loop # 0 /\ thread # 0
                THEN [loops EXCEPT ![loop] = "stopping"]
                ELSE loops

\* disconnect(): _run returns or raises; what it raised is kept (ret) until
\* the finally clause is over, and so is the coroutine a wait gave up
DisconnectWaited ==
    /\ caller.pc = "wait"
    /\ caller.op = "disconnect"
    /\ \/ /\ TaskDone(caller.task)
          /\ tasks' = Taken
          /\ abandoned' = abandoned
          /\ caller' = [caller EXCEPT !.pc = "d_stop", !.task = 0, !.ret =
                           IF tasks[caller.task].res = "ok"
                           THEN Returned("disconnect", "ok", "none", Unknown,
                                         caller.pre)
                           ELSE Returned("disconnect", "err",
                                         RunError(tasks[caller.task].res),
                                         Unknown, caller.pre)]
       \/ /\ TimedOut(caller.task)
          /\ tasks' = Abandoned
          /\ abandoned' = [abandoned EXCEPT !.run = @ + 1]
          /\ caller' = [caller EXCEPT !.pc = "d_stop", !.ret =
                           Returned("disconnect", "err", "Timeout", Unknown,
                                    caller.pre)]
    /\ UNCHANGED <<codecVars, loop, thread, closing, client, write,
                   last_notify, notify_event, handles, loops, cb, hist>>

\* disconnect(), finally: _stop_loop_thread.  It returns at once when
\* self._loop or self._thread was None; else it asks the loop to stop and
\* waits in thread.join(timeout=2.0)
DisconnectStops ==
    /\ caller.pc = "d_stop"
    /\ StopLoop
    /\ caller' = IF loop # 0 /\ thread # 0
                 THEN [caller EXCEPT !.pc = "d_join"]
                 ELSE Idle(caller.ret)
    /\ UNCHANGED <<codecVars, abandoned, closing, client, write, last_notify,
                   notify_event, handles, cb, tasks, hist>>

\* thread.join(timeout=2.0) returns, the thread ended or not; disconnect()
\* returns, or raises what _run raised
DisconnectJoined ==
    /\ caller.pc = "d_join"
    /\ caller' = Idle(caller.ret)
    /\ UNCHANGED <<codecVars, abandoned, loop, thread, closing, client, write,
                   last_notify, notify_event, handles, loops, cb, tasks, hist>>

\* get_state: _run(_ensure_connected()) returned; request_sync is next
GetStateEnsured ==
    /\ caller.pc = "wait"
    /\ caller.op = "get_state"
    /\ TaskDone(caller.task)
    /\ tasks[caller.task].kind = "ensure"
    /\ tasks[caller.task].res = "ok"
    /\ IF caller.rs
       THEN /\ Len(tasks) < MaxTasks
            /\ tasks' = Append(Taken, NewTask("write", <<SyncFrame>>, loop))
            /\ caller' = [caller EXCEPT !.task = Len(tasks) + 1]
       ELSE /\ caller' = [caller EXCEPT !.pc = "gs_wait", !.task = 0]
            /\ tasks' = Taken
    /\ UNCHANGED <<codecVars, abandoned, loop, thread, closing, client, write,
                   last_notify, notify_event, handles, loops, cb, hist>>

\* get_state: _run(_request_sync_async()) returned; the event wait is next
GetStateSynced ==
    /\ caller.pc = "wait"
    /\ caller.op = "get_state"
    /\ TaskDone(caller.task)
    /\ tasks[caller.task].kind = "write"
    /\ tasks[caller.task].res = "ok"
    /\ caller' = [caller EXCEPT !.pc = "gs_wait", !.task = 0]
    /\ tasks' = Taken
    /\ UNCHANGED <<codecVars, abandoned, loop, thread, closing, client, write,
                   last_notify, notify_event, handles, loops, cb, hist>>

\* get_state letting the exception of _run through
GetStateFailsRaises ==
    /\ caller.pc = "wait"
    /\ caller.op = "get_state"
    /\ \/ /\ TaskDone(caller.task)
          /\ tasks[caller.task].res # "ok"
          /\ tasks' = Taken
          /\ abandoned' = abandoned
          /\ caller' = Idle(Returned("get_state", "err",
                                     RunError(tasks[caller.task].res),
                                     Unknown, caller.pre))
       \/ /\ TimedOut(caller.task)
          /\ tasks' = Abandoned
          /\ abandoned' = [abandoned EXCEPT !.run = @ + 1]
          /\ caller' = Idle(Returned("get_state", "err", "Timeout", Unknown,
                                     caller.pre))
    /\ hist' = hist
    /\ UNCHANGED <<codecVars, loop, thread, closing, client, write,
                   last_notify, notify_event, handles, loops, cb>>

\* get_state: except Exception: return HexagonState()
GetStateFails ==
    /\ caller.pc = "wait"
    /\ caller.op = "get_state"
    /\ \/ /\ TaskDone(caller.task)
          /\ tasks[caller.task].res # "ok"
          /\ tasks' = Taken
          /\ abandoned' = abandoned
       \/ /\ TimedOut(caller.task)
          /\ tasks' = Abandoned
          /\ abandoned' = [abandoned EXCEPT !.run = @ + 1]
    /\ caller' = Idle(Returned("get_state", "state", "failed", Unknown, caller.pre))
    /\ hist' = hist
    /\ UNCHANGED <<codecVars, loop, thread, closing, client, write,
                   last_notify, notify_event, handles, loops, cb>>

\* self._notify_event.wait(timeout) returns True
GetStateWakes ==
    /\ caller.pc = "gs_wait"
    /\ notify_event
    /\ caller' = [caller EXCEPT !.pc = "gs_read"]
    /\ UNCHANGED <<codecVars, abandoned, loop, thread, closing, client, write,
                   last_notify, notify_event, handles, loops, cb, tasks, hist>>

\* self._notify_event.wait(timeout) returns False
GetStateWaitExpires ==
    /\ caller.pc = "gs_wait"
    /\ ~notify_event
    /\ caller' = [caller EXCEPT !.pc = "gs_expired"]
    /\ UNCHANGED <<codecVars, abandoned, loop, thread, closing, client, write,
                   last_notify, notify_event, handles, loops, cb, tasks, hist>>

\* with self._state_lock: raw = self._last_notify; return self._parse_state(raw)
GetStateParsed ==
    /\ caller.pc = "gs_read"
    /\ caller' = Idle(Returned("get_state", "state", "parsed",
                               ParseState(last_notify), caller.pre))
    /\ hist' = hist
    /\ UNCHANGED <<codecVars, abandoned, loop, thread, closing, client, write,
                   last_notify, notify_event, handles, loops, cb, tasks>>

\* with self._state_lock: raw = self._last_notify; return HexagonState(raw=raw)
GetStateExpired ==
    /\ caller.pc = "gs_expired"
    /\ caller' = Idle(Returned("get_state", "state", "expired",
                               HexagonState(None, None, last_notify), caller.pre))
    /\ hist' = hist
    /\ UNCHANGED <<codecVars, abandoned, loop, thread, closing, client, write,
                   last_notify, notify_event, handles, loops, cb, tasks>>

\* ------------------------------------------------------------ specification
PureIdle ==
    /\ pfOp = "none"
    /\ pfArg = <<>>
    /\ pfOut = None

CodecIdle ==
    /\ bcCmd = 0
    /\ bcPayload = <<>>
    /\ bcOut = [err |-> "pending", frame |-> <<>>]
    /\ PureIdle

SessionFields ==
    /\ loop = 0
    /\ closing = FALSE
    /\ client = 0
    /\ write = None
    /\ last_notify = None
    /\ notify_event = FALSE
    /\ handles = [h \in Handles |-> [st |-> "free", gen |-> 0]]
    /\ thread = 0
    /\ loops = <<>>
    /\ cb = NoCallback
    /\ tasks = <<>>
    /\ caller = Idle(NoReturn)
    /\ hist = NoHist

\* the session after construction, in a behaviour where MaxAbandoned waits
\* in all may time out
SessionInit ==
    /\ SessionFields
    /\ abandoned = NoneAbandoned(MaxAbandoned)

Init == CodecIdle /\ SessionInit

Next ==
    \/ CallConnect
    \/ CallDisconnect
    \/ \E on \in BOOLEAN : CallPower(on)
    \/ \E percent \in PercentInputs : CallSetBrightness(percent)
    \/ \E c \in RgbInputs : CallSetRgb(c)
    \/ \E scene \in SceneInputs, speed \in SpeedInputs : CallSetScene(scene, speed)
    \/ \E name \in SessionNames, speed \in SpeedInputs :
          CallSetSceneByName(name, speed)
    \/ \E rs \in BOOLEAN : CallGetState(rs)
    \/ \E g \in LoopIds :
          \/ RunnerSetsLoop(g)
          \/ RunnerReady(g)
          \/ RunnerCancels(g)
          \/ EventSet(g)
          \/ EventCleared(g)
    \/ ConnectStarted
    \/ ConnectRuns
    \/ ConnectStartFails
    \/ CallReturns
    \/ DisconnectRuns
    \/ DisconnectWaited
    \/ DisconnectStops
    \/ DisconnectJoined
    \/ GetStateRuns
    \/ GetStateEnsured
    \/ GetStateSynced
    \/ GetStateFails
    \/ GetStateWakes
    \/ GetStateWaitExpires
    \/ GetStateParsed
    \/ GetStateExpired
    \/ \E t \in TaskIds :
          \/ StartConnect(t)
          \/ StartEnsure(t)
          \/ StartWrite(t)
          \/ StartDisconnect(t)
          \/ EnsureConnects(t)
          \/ EnsureChecks(t)
          \/ ConnectAttempt(t)
          \/ ConnectFails(t)
          \/ ConnectSucceeds(t)
          \/ ServiceNotFound(t)
          \/ ConnectDiscovers(t)
          \/ ServicesDiscovered(t)
          \/ DiscoveryFails(t)
          \/ ServiceDisconnected(t)
          \/ Installed(t)
          \/ SleepDone(t)
          \/ WriteReads(t)
          \/ WriteSucceeds(t)
          \/ WriteFails(t)
          \/ WriteReconnects(t)
          \/ ReconnectEnsures(t)
          \/ RetryReads(t)
          \/ RetrySucceeds(t)
          \/ RetryFails(t)
          \/ DisconnectDone(t)
          \/ Cancelled(t)
    \/ \E h \in Handles :
          \/ \E data \in NotifData : Notify(h, data)
          \/ Drop(h)

Spec == Init /\ [][Next]_vars

\* the session driven by connect(), disconnect() and the commands of one
\* frame only: no set_scene(), no get_state() and no notification
NextCommands ==
    \/ CallConnect
    \/ CallDisconnect
    \/ \E on \in BOOLEAN : CallPower(on)
    \/ \E percent \in PercentInputs : CallSetBrightness(percent)
    \/ \E c \in RgbInputs : CallSetRgb(c)
    \/ \E g \in LoopIds :
          \/ RunnerSetsLoop(g)
          \/ RunnerReady(g)
          \/ RunnerCancels(g)
          \/ EventCleared(g)
    \/ ConnectStarted
    \/ ConnectRuns
    \/ ConnectStartFails
    \/ CallReturns
    \/ DisconnectRuns
    \/ DisconnectWaited
    \/ DisconnectStops
    \/ DisconnectJoined
    \/ \E t \in TaskIds :
          \/ StartConnect(t)
          \/ StartWrite(t)
          \/ StartDisconnect(t)
          \/ EnsureConnects(t)
          \/ EnsureChecks(t)
          \/ ConnectAttempt(t)
          \/ ConnectFails(t)
          \/ ConnectSucceeds(t)
          \/ ServiceNotFound(t)
          \/ ConnectDiscovers(t)
          \/ ServicesDiscovered(t)
          \/ DiscoveryFails(t)
          \/ ServiceDisconnected(t)
          \/ Installed(t)
          \/ SleepDone(t)
          \/ WriteReads(t)
          \/ WriteSucceeds(t)
          \/ WriteFails(t)
          \/ WriteReconnects(t)
          \/ ReconnectEnsures(t)
          \/ RetryReads(t)
          \/ RetrySucceeds(t)
          \/ RetryFails(t)
          \/ DisconnectDone(t)
          \/ Cancelled(t)
    \/ \E h \in Handles : Drop(h)

SpecCommands == Init /\ [][NextCommands]_vars

\* the session driven by connect(), disconnect(), set_scene() and
\* set_scene_by_name() only
NextScenes ==
    \/ CallConnect
    \/ CallDisconnect
    \/ \E scene \in SceneInputs, speed \in SpeedInputs : CallSetScene(scene, speed)
    \/ \E name \in SessionNames, speed \in SpeedInputs :
          CallSetSceneByName(name, speed)
    \/ \E g \in LoopIds :
          \/ RunnerSetsLoop(g)
          \/ RunnerReady(g)
          \/ RunnerCancels(g)
          \/ EventCleared(g)
    \/ ConnectStarted
    \/ ConnectRuns
    \/ ConnectStartFails
    \/ CallReturns
    \/ DisconnectRuns
    \/ DisconnectWaited
    \/ DisconnectStops
    \/ DisconnectJoined
    \/ \E t \in TaskIds :
          \/ StartConnect(t)
          \/ StartWrite(t)
          \/ StartDisconnect(t)
          \/ EnsureConnects(t)
          \/ EnsureChecks(t)
          \/ ConnectAttempt(t)
          \/ ConnectFails(t)
          \/ ConnectSucceeds(t)
          \/ ServiceNotFound(t)
          \/ ConnectDiscovers(t)
          \/ ServicesDiscovered(t)
          \/ DiscoveryFails(t)
          \/ ServiceDisconnected(t)
          \/ Installed(t)
          \/ SleepDone(t)
          \/ WriteReads(t)
          \/ WriteSucceeds(t)
          \/ WriteFails(t)
          \/ WriteReconnects(t)
          \/ ReconnectEnsures(t)
          \/ RetryReads(t)
          \/ RetrySucceeds(t)
          \/ RetryFails(t)
          \/ DisconnectDone(t)
          \/ Cancelled(t)
    \/ \E h \in Handles : Drop(h)

SpecScenes == Init /\ [][NextScenes]_vars

\* the session driven by connect(), disconnect(), turn_on()/turn_off() and
\* get_state(), on a transport that answers every call sooner or later and
\* sends no notification, in behaviours where a wait for a loop thread and a
\* wait for a coroutine may both time out
InitTimeouts ==
    /\ CodecIdle
    /\ SessionFields
    /\ abandoned = NoneAbandoned(MaxAbandoned + MaxLate)

NextTimeouts ==
    \/ CallConnect
    \/ CallDisconnect
    \/ \E on \in BOOLEAN : CallPower(on)
    \/ \E rs \in BOOLEAN : CallGetState(rs)
    \/ \E g \in LoopIds :
          \/ RunnerSetsLoop(g)
          \/ RunnerReady(g)
          \/ RunnerCancels(g)
    \/ ConnectStarted
    \/ ConnectRuns
    \/ ConnectStartFails
    \/ CallReturns
    \/ DisconnectRuns
    \/ DisconnectWaited
    \/ DisconnectStops
    \/ DisconnectJoined
    \/ GetStateRuns
    \/ GetStateEnsured
    \/ GetStateSynced
    \/ GetStateFails
    \/ GetStateWaitExpires
    \/ GetStateExpired
    \/ \E t \in TaskIds :
          \/ StartConnect(t)
          \/ StartEnsure(t)
          \/ StartWrite(t)
          \/ StartDisconnect(t)
          \/ EnsureConnects(t)
          \/ EnsureChecks(t)
          \/ ConnectAttempt(t)
          \/ ConnectFails(t)
          \/ ConnectSucceeds(t)
          \/ Installed(t)
          \/ SleepDone(t)
          \/ WriteReads(t)
          \/ WriteSucceeds(t)
          \/ DisconnectDone(t)
          \/ Cancelled(t)

SpecTimeouts == InitTimeouts /\ [][NextTimeouts]_vars

\* the session driven by connect(), disconnect() and get_state() only, with
\* the notifications of the device
NextState ==
    \/ CallConnect
    \/ CallDisconnect
    \/ \E rs \in BOOLEAN : CallGetState(rs)
    \/ \E g \in LoopIds :
          \/ RunnerSetsLoop(g)
          \/ RunnerReady(g)
          \/ RunnerCancels(g)
          \/ EventSet(g)
          \/ EventCleared(g)
    \/ ConnectStarted
    \/ ConnectRuns
    \/ ConnectStartFails
    \/ CallReturns
    \/ DisconnectRuns
    \/ DisconnectWaited
    \/ DisconnectStops
    \/ DisconnectJoined
    \/ GetStateRuns
    \/ GetStateEnsured
    \/ GetStateSynced
    \/ GetStateFails
    \/ GetStateWakes
    \/ GetStateWaitExpires
    \/ GetStateParsed
    \/ GetStateExpired
    \/ \E t \in TaskIds :
          \/ StartConnect(t)
          \/ StartEnsure(t)
          \/ StartWrite(t)
          \/ StartDisconnect(t)
          \/ EnsureConnects(t)
          \/ EnsureChecks(t)
          \/ ConnectAttempt(t)
          \/ ConnectFails(t)
          \/ ConnectSucceeds(t)
          \/ ServiceNotFound(t)
          \/ ConnectDiscovers(t)
          \/ ServicesDiscovered(t)
          \/ DiscoveryFails(t)
          \/ ServiceDisconnected(t)
          \/ Installed(t)
          \/ SleepDone(t)
          \/ WriteReads(t)
          \/ WriteSucceeds(t)
          \/ WriteFails(t)
          \/ WriteReconnects(t)
          \/ ReconnectEnsures(t)
          \/ RetryReads(t)
          \/ RetrySucceeds(t)
          \/ RetryFails(t)
          \/ DisconnectDone(t)
          \/ Cancelled(t)
    \/ \E h \in Handles :
          \/ \E data \in NotifData : Notify(h, data)
          \/ Drop(h)

SpecState == Init /\ [][NextState]_vars

\* the codec on its own: _build_command applied to enumerated arguments
BuildStep ==
    /\ bcOut.err = "pending"
    /\ bcOut' = BuildCommand(bcCmd, bcPayload)
    /\ UNCHANGED <<bcCmd, bcPayload, pfOp, pfArg, pfOut, sessVars>>

InitCodec ==
    /\ bcCmd \in Cmds
    /\ bcPayload \in Payloads
    /\ bcOut = [err |-> "pending", frame |-> <<>>]
    /\ PureIdle
    /\ SessionInit

NextCodec == BuildStep

SpecCodec == InitCodec /\ [][NextCodec]_vars

\* the pure functions of the facade on their own, each applied to enumerated
\* arguments
ResolveStep ==
    /\ pfOp = "resolve"
    /\ pfOut = None
    /\ pfOut' = Some(ResolveSceneName(pfArg))
    /\ UNCHANGED <<bcCmd, bcPayload, bcOut, pfOp, pfArg, sessVars>>

ParseStep ==
    /\ pfOp = "parse"
    /\ pfOut = None
    /\ pfOut' = Some(ParseState(Some(pfArg)))
    /\ UNCHANGED <<bcCmd, bcPayload, bcOut, pfOp, pfArg, sessVars>>

BrightnessStep ==
    /\ pfOp = "brightness"
    /\ pfOut = None
    /\ pfOut' = Some(SetBrightnessFrame(pfArg))
    /\ UNCHANGED <<bcCmd, bcPayload, bcOut, pfOp, pfArg, sessVars>>

InitPure ==
    /\ bcCmd = 0
    /\ bcPayload = <<>>
    /\ bcOut = [err |-> "pending", frame |-> <<>>]
    /\ \/ pfOp = "resolve" /\ pfArg \in SceneNameInputs
       \/ pfOp = "parse" /\ pfArg \in ParseInputs
       \/ pfOp = "brightness" /\ pfArg \in BrightnessInputs
    /\ pfOut = None
    /\ SessionInit

NextPure == ResolveStep \/ ParseStep \/ BrightnessStep

SpecPure == InitPure /\ [][NextPure]_vars

\* the colour encoder on its own, applied to enumerated colours
ColorStep ==
    /\ pfOp = "color"
    /\ pfOut = None
    /\ pfOut' = Some(RgbToHueSatPayload(pfArg[1], pfArg[2], pfArg[3]))
    /\ UNCHANGED <<bcCmd, bcPayload, bcOut, pfOp, pfArg, sessVars>>

InitColor ==
    /\ bcCmd = 0
    /\ bcPayload = <<>>
    /\ bcOut = [err |-> "pending", frame |-> <<>>]
    /\ pfOp = "color"
    /\ pfArg \in ColorInputs
    /\ pfOut = None
    /\ SessionInit

NextColor == ColorStep

SpecColor == InitColor /\ [][NextColor]_vars

\* ------------------------------------------------------------------- claims
Built == bcOut.err # "pending"

\* C1: for every command byte and every payload with 5 + len(payload) <= 255,
\* _build_command returns a frame of 5 + len(payload) bytes: 0x55, cmd, 0xFF,
\* the total length, the payload unchanged, and a last byte that makes the sum
\* of all bytes 0xFF modulo 256.
C1_FrameLayout ==
    (Built /\ 5 + Len(bcPayload) <= 255) =>
        /\ bcOut.err = "none"
        /\ Len(bcOut.frame) = 5 + Len(bcPayload)
        /\ bcOut.frame[1] = 85
        /\ (bcCmd \in 0..255 => bcOut.frame[2] = bcCmd)
        /\ bcOut.frame[3] = 255
        /\ bcOut.frame[4] = Len(bcOut.frame)
        /\ SubSeq(bcOut.frame, 5, 4 + Len(bcPayload)) = bcPayload
        /\ SumBytes(bcOut.frame) % 256 = 255

\* C1 witness: a frame of the largest allowed length, 255 bytes, was built
C1_Witness ==
    /\ bcOut.err = "none"
    /\ Len(bcPayload) = 250
    /\ Len(bcOut.frame) = 255

\* C2: for every payload with 5 + len(payload) > 255, _build_command raises
\* and returns no frame.
C2_TooLongRejected ==
    (Built /\ 5 + Len(bcPayload) > 255) =>
        /\ bcOut.err = "ValueError"
        /\ bcOut.frame = <<>>

\* C2 witness: the shortest payload that is too long, 251 bytes, was rejected
C2_Witness ==
    /\ bcOut.err = "ValueError"
    /\ Len(bcPayload) = 251

\* no client.connect() has returned so far: every connect attempt failed
NoConnectionYet == \A h \in Handles : handles[h].st \in {"free", "connecting"}

\* C3 as stated: when every client.connect() fails, a connect() makes
\* exactly ConnectRetries attempts, fails with the "failed to connect" error,
\* and the session holds no client and no WriteConfig.
C3_Original ==
    /\ \A t \in 1..Len(tasks) :
          (tasks[t].kind = "connect" /\ tasks[t].pc = "done" /\ NoConnectionYet) =>
              /\ tasks[t].res = "ConnectFailed"
              /\ tasks[t].nconn = ConnectRetries
              /\ client = 0
              /\ write = None
    /\ (caller.ret.op = "connect" /\ NoConnectionYet) =>
              /\ caller.ret.kind = "err"
              /\ caller.ret.err = "ConnectFailed"
              /\ client = 0
              /\ write = None

\* connect() raised before _connect_async was submitted: the loop thread did
\* not start in time, or self._loop is not set yet by a thread that is alive
NoLoopError == {"LoopStartFailed", "NotConnected"}

\* C3 amended: when every client.connect() fails, a _connect_async makes
\* exactly ConnectRetries attempts and fails with the "failed to connect"
\* error; connect() raises that error, or the timeout error when its wait
\* ends before the attempts do, or, when its loop thread has not started, an
\* error of its own with no attempt made; the session holds no client and no
\* WriteConfig.
C3_ConnectExhausts ==
    /\ [](/\ \A t \in 1..Len(tasks) :
                (/\ tasks[t].kind = "connect"
                 /\ tasks[t].pc = "done"
                 /\ NoConnectionYet) =>
                    /\ tasks[t].res = "ConnectFailed"
                    /\ tasks[t].nconn = ConnectRetries
                    /\ client = 0
                    /\ write = None
          /\ (caller.ret.op = "connect" /\ NoConnectionYet) =>
                    /\ caller.ret.kind = "err"
                    /\ caller.ret.err \in {"ConnectFailed", "Timeout"} \cup NoLoopError
                    /\ client = 0
                    /\ write = None)
    /\ [][(caller.pc \in {"starting", "c_run"} /\ caller'.pc = "idle"
              /\ caller'.ret.op = "connect") =>
                /\ caller'.ret.err \in NoLoopError
                /\ UNCHANGED <<tasks, handles>>]_vars

\* C3 witness: a connect() ended after ConnectRetries failed attempts
C3_Witness ==
    /\ NoConnectionYet
    /\ \E t \in 1..Len(tasks) :
          /\ tasks[t].kind = "connect"
          /\ tasks[t].pc = "done"
          /\ tasks[t].res = "ConnectFailed"
          /\ tasks[t].nconn = ConnectRetries
          /\ Len(tasks[t].slept) = ConnectRetries

\* the first write of the i-th _write_frame call of a coroutine failed, its
\* reconnect returned normally (the call was neither stopped by the
\* exception of _connect_async nor cancelled) and the call is over
RetriedAfterReconnect(tk, i) ==
    /\ tk.kind = "write"
    /\ Len(FrameLog(tk, i)) >= 1
    /\ ~FrameLog(tk, i)[1].ok
    /\ \/ i < tk.fi
       \/ /\ tk.pc = "done"
          /\ tk.res \notin {"ConnectFailed", "ConnectAborted", "cancelled"}

\* C4: when the first write of a _write_frame fails and its reconnect
\* (_ensure_connected) returns normally, there is exactly one further write,
\* of the same frame bytes, on another client, and when that write succeeds
\* _write_frame returns normally.
C4_OneRetriedWrite ==
    \A t \in 1..Len(tasks) : \A i \in 1..Len(tasks[t].frames) :
        RetriedAfterReconnect(tasks[t], i) =>
            LET fl == FrameLog(tasks[t], i) IN
            /\ Len(fl) = 2
            /\ fl[2].frame = fl[1].frame
            /\ fl[2].h # fl[1].h
            /\ fl[2].ok => (i < tasks[t].fi \/ tasks[t].res = "ok")

\* C5: one _write_frame makes at most two transport writes and at most one
\* reconnect after a failure; when the retried write fails too, the error
\* ends the coroutine.
C5_AtMostTwoWrites ==
    \A t \in 1..Len(tasks) :
        tasks[t].kind = "write" =>
            /\ tasks[t].reconn <= 1
            /\ \A i \in 1..Len(tasks[t].frames) :
                  LET fl == FrameLog(tasks[t], i) IN
                  /\ Len(fl) <= 2
                  /\ (Len(fl) = 2 /\ ~fl[2].ok) =>
                        /\ tasks[t].pc = "done"
                        /\ tasks[t].res \in WriteErrors
                        /\ tasks[t].fi = i

\* C5 witness: both writes failed and the caller of turn_on/turn_off got the
\* error
C5_Witness ==
    /\ caller.ret.op = "power"
    /\ caller.ret.kind = "err"
    /\ caller.ret.err = "WriteError"

\* C6: disconnect() on a session that is already Disconnected raises nothing.
C6_DisconnectIdempotent ==
    (caller.pc = "idle" /\ caller.ret.op = "disconnect" /\ caller.ret.pre) =>
        caller.ret.kind = "ok"

\* the client the session held when connect() or disconnect() was called was
\* connected, and it is still the session's client and still connected
StillConnected == hist.held # 0 /\ client = hist.held /\ IsConnected(client)

\* C7 as stated: a connect() called on a session that is connected with a
\* live client, and stays so, returns without error.
C7_Original ==
    (caller.pc = "idle" /\ caller.ret.op = "connect" /\ StillConnected) =>
        caller.ret.kind = "ok"

\* C7 amended: a connect() called on a session that is connected with a live
\* client, and stays so, returns without error, or raises the timeout error
\* when its wait expires before its coroutine is over, or an error of its
\* own when its loop thread has not started; its coroutine makes no connect
\* attempt: when it finds the existing client connected it ends without
\* error and leaves the client, the WriteConfig, the notification slot and
\* every transport handle as they are, and a connect() that returns without
\* error has made no attempt.
C7_ConnectNoOp ==
    /\ []((caller.pc = "idle" /\ caller.ret.op = "connect" /\ StillConnected) =>
              \/ caller.ret.kind = "ok"
              \/ caller.ret.err \in {"Timeout"} \cup NoLoopError)
    /\ [][/\ \A t \in TaskIds :
              (/\ ConnectAttempt(t)
               /\ tasks[t].kind = "connect"
               /\ IsConnected(tasks[t].h)) =>
                  /\ tasks'[t] = Finish(tasks[t], "ok")
                  /\ UNCHANGED <<client, write, last_notify, handles>>
          /\ (/\ caller.pc = "wait"
              /\ caller.op = "connect"
              /\ caller'.pc = "idle"
              /\ caller'.ret.kind = "ok"
              /\ StillConnected) =>
                  tasks[caller.task].nconn = 0]_vars

\* C7 witness: the coroutine of a connect() called on a connected session
\* has ended without error and without any attempt, the session still holds
\* the same connected client, and connect() is about to return
C7_Witness ==
    /\ caller.pc = "wait"
    /\ caller.op = "connect"
    /\ StillConnected
    /\ tasks[caller.task].pc = "done"
    /\ tasks[caller.task].res = "ok"
    /\ tasks[caller.task].nconn = 0

\* C8: a get_state() that returns without reaching its event wait (no loop,
\* _ensure_connected or the sync request failed or timed out) returns the
\* all-unknown state and raises nothing.
C8_GetStateDegrades ==
    [][(caller.pc \in {"gs_run", "wait"}
          /\ caller'.pc = "idle" /\ caller'.ret.op = "get_state") =>
              /\ caller'.ret.kind = "state"
              /\ caller'.ret.state = Unknown]_vars

\* C8 witness: get_state() gave up after a failure while the slot held a
\* notification
C8_Witness ==
    /\ caller.ret.op = "get_state"
    /\ caller.ret.err = "failed"
    /\ caller.ret.state = Unknown
    /\ last_notify # None
    /\ loop # 0

\* C9 as stated: with no notification delivered during a get_state() call, it
\* returns the all-unknown state, raw included.
C9_Original ==
    (caller.ret.op = "get_state" /\ ~hist.beforeExpiry) =>
        caller.ret.state = Unknown

\* C9 amended: with no notification delivered between the start of a
\* get_state() call and the end of its wait, power and brightness are unknown
\* and nothing is parsed; raw is what the slot holds when it is read, which,
\* with no notification delivered before the call returns, is nothing or the
\* notification that was in the slot when the call started.
C9_StaleRawOnly ==
    /\ (caller.ret.op = "get_state" /\ ~hist.beforeExpiry) =>
          /\ caller.ret.kind = "state"
          /\ caller.ret.err \in {"failed", "expired"}
          /\ caller.ret.state.is_on = None
          /\ caller.ret.state.brightness_percent = None
    /\ (caller.ret.op = "get_state" /\ hist.lastDelivered = None) =>
          caller.ret.state.raw \in {None, hist.slotAtStart}

\* C9 witness: the wait expired with no notification during the call and the
\* state returned carries the notification received before the call
C9_Witness ==
    /\ caller.ret.op = "get_state"
    /\ caller.ret.err = "expired"
    /\ hist.lastDelivered = None
    /\ hist.slotAtStart # None
    /\ caller.ret.state.raw = hist.slotAtStart

\* C10: when a notification is delivered during the event wait of get_state()
\* and self._client does not change during the call, get_state() returns
\* _parse_state of the notification delivered last before the slot was read.
C10_LatestNotificationParsed ==
    (caller.ret.op = "get_state" /\ hist.waitNotified /\ ~hist.connChanged) =>
        /\ caller.ret.err = "parsed"
        /\ caller.ret.state = ParseState(hist.lastDelivered)

\* a coroutine of set_scene: its first frame is the scene command
SceneTask(tk) == tk.kind = "write" /\ tk.frames[1][2] = 6

\* the coroutine has made a scene write (cmd 0x06) that returned, before the
\* n-th write of its log
SceneWrittenBefore(tk, n) ==
    \E j \in 1..(n - 1) : tk.log[j].frame[2] = 6 /\ tk.log[j].ok

\* C11: a set_scene coroutine writes the scene-speed frame (cmd 0x0F) only
\* after a scene write (cmd 0x06) has returned: every 0x0F write made, and
\* every 0x0F write being awaited, follows a successful 0x06 write of the same
\* coroutine, so a failed scene write is followed by no 0x0F write; without a
\* speed the coroutine never writes 0x0F.
C11_SceneThenSpeed ==
    \A t \in 1..Len(tasks) :
        SceneTask(tasks[t]) =>
            LET tk == tasks[t] IN
            /\ \A i \in 1..Len(tk.log) :
                  tk.log[i].frame[2] = 15 => SceneWrittenBefore(tk, i)
            /\ (tk.pc \in {"w_write1", "w_write2"} /\ tk.frames[tk.fi][2] = 15) =>
                  SceneWrittenBefore(tk, Len(tk.log) + 1)
            /\ Len(tk.frames) = 1 =>
                  /\ \A i \in 1..Len(tk.log) : tk.log[i].frame[2] # 15
                  /\ tk.frames[tk.fi][2] # 15

\* C11 witness: the first scene write failed, its retry succeeded, and the
\* speed frame was written after it
C11_Witness ==
    \E t \in 1..Len(tasks) :
        /\ SceneTask(tasks[t])
        /\ tasks[t].pc = "done"
        /\ tasks[t].res = "ok"
        /\ Len(tasks[t].log) = 3
        /\ ~tasks[t].log[1].ok
        /\ tasks[t].log[2].frame[2] = 6 /\ tasks[t].log[2].ok
        /\ tasks[t].log[3].frame[2] = 15 /\ tasks[t].log[3].ok

\* the wait of a facade call for coroutine t times out in this step
WaitTimesOut(t) ==
    /\ t \in 1..Len(tasks)
    /\ ~tasks[t].detached
    /\ tasks'[t].detached

\* C12 as stated: when the wait of a facade call times out, the call raises
\* the timeout error and the coroutine it submitted is not cancelled: it is
\* left as it is, and the call does not stop the loop it runs on.
C12_Original ==
    [][/\ \A t \in TaskIds :
              WaitTimesOut(t) =>
                  /\ caller'.ret.kind = "err"
                  /\ caller'.ret.err = "Timeout"
                  /\ tasks'[t] = [tasks[t] EXCEPT !.detached = TRUE]
       /\ (caller.pc = "d_stop" /\ caller.task # 0) => loops' = loops]_vars

\* C12 amended: when the wait of a facade call times out, connect(),
\* disconnect() and the commands raise the timeout error and get_state()
\* returns the all-unknown state; the coroutine is left as it is, neither
\* finished nor cancelled, and goes on from where it was.  A coroutine is
\* cancelled only by the thread of its loop, once that loop was asked to
\* stop; a loop is asked to stop only by _stop_loop_thread, which
\* disconnect() calls before it returns whether its wait timed out or not,
\* and which stops the loop of self._loop when self._thread is set too, and
\* nothing otherwise.
C12_TimeoutKeepsRunning ==
    [][/\ \A t \in TaskIds :
              WaitTimesOut(t) =>
                  /\ caller.task = t
                  /\ tasks[t].pc # "done"
                  /\ tasks'[t] = [tasks[t] EXCEPT !.detached = TRUE]
                  /\ IF caller.op = "get_state"
                     THEN /\ caller'.pc = "idle"
                          /\ caller'.ret.kind = "state"
                          /\ caller'.ret.state = Unknown
                     ELSE /\ caller'.pc = IF caller.op = "disconnect"
                                          THEN "d_stop" ELSE "idle"
                          /\ caller'.ret.op = caller.op
                          /\ caller'.ret.kind = "err"
                          /\ caller'.ret.err = "Timeout"
       /\ (caller.pc \in {"d_stop", "d_join"} /\ caller'.pc = "idle") =>
              caller'.ret = caller.ret
       /\ \A t \in TaskIds :
              (t <= Len(tasks) /\ ~tasks[t].cancel /\ tasks'[t].cancel) =>
                  /\ loops[tasks[t].gen] = "stopping"
                  /\ loops'[tasks[t].gen] = "stopped"
       /\ \A g \in LoopIds :
              (g <= gen /\ loops[g] # "stopping" /\ loops'[g] = "stopping") =>
                  /\ caller.pc = "d_stop"
                  /\ g = loop
                  /\ thread # 0
       /\ (caller.pc = "d_stop" /\ caller'.pc # "d_stop") =>
              IF loop # 0 /\ thread # 0
              THEN loops' = [loops EXCEPT ![loop] = "stopping"]
              ELSE loops' = loops]_vars

\* C12 witness: after its caller got the timeout, a coroutine installed the
\* only connection made so far and is about to write on it, while the caller
\* waits for the next coroutine, which has not started
C12_Witness ==
    \E t \in 1..Len(tasks) :
        /\ tasks[t].detached
        /\ tasks[t].pc = "w_write1"
        /\ client = tasks[t].h
        /\ IsConnected(client)
        /\ \A h \in Handles \ {client} : handles[h].st = "free"
        /\ caller.pc = "wait"
        /\ caller.task # t
        /\ tasks[caller.task].pc = "start"

\* the same character up to letter case and hyphen/underscore
FoldChar(c) == IF c = "-" THEN "_" ELSE LowerChar(c)

\* name is key respelled: letters in either case, hyphen and underscore
\* exchanged
IsSpellingOf(name, key) ==
    /\ Len(name) = Len(key)
    /\ \A i \in 1..Len(key) : FoldChar(name[i]) = FoldChar(key[i])

\* name is a spelling of key once surrounding whitespace is stripped and
\* spaces are read as underscores
IsLooseSpellingOf(name, key) ==
    IsSpellingOf(Replace(Strip(name), " ", "_"), key)

Resolved == pfOp = "resolve" /\ pfOut # None

\* C13 as stated: every spelling of a table entry (letter case changed,
\* hyphens and underscores exchanged) resolves to the index of the entry, and
\* a name that is a spelling of no entry fails with the unknown-scene error.
C13_Original ==
    Resolved =>
        /\ \A e \in ScenesTG609 :
              IsSpellingOf(pfArg, e.key) =>
                  pfOut[1] = [err |-> "none", scene |-> e.index]
        /\ (\A e \in ScenesTG609 : ~IsSpellingOf(pfArg, e.key)) =>
              pfOut[1].err = "UnknownScene"

\* C13 amended: every spelling of a table entry resolves to the index of the
\* entry, also when it is surrounded by whitespace or written with a space for
\* the separator; a name that, with surrounding whitespace stripped and spaces
\* read as underscores, is a spelling of no entry fails with the unknown-scene
\* error.
C13_SceneNameResolution ==
    Resolved =>
        /\ \A e \in ScenesTG609 :
              IsLooseSpellingOf(pfArg, e.key) =>
                  pfOut[1] = [err |-> "none", scene |-> e.index]
        /\ (\A e \in ScenesTG609 : ~IsLooseSpellingOf(pfArg, e.key)) =>
              pfOut[1].err = "UnknownScene"

\* C13 witness: "Green-Jade" resolved to 71
C13_Witness ==
    /\ Resolved
    /\ pfArg = <<"G", "r", "e", "e", "n", "-", "J", "a", "d", "e">>
    /\ pfOut[1] = [err |-> "none", scene |-> 71]

Parsed == pfOp = "parse" /\ pfOut # None

\* C14: _parse_state of an input that is empty, shorter than 6 bytes, or whose
\* byte sum is not 0xFF modulo 256 has unknown power and unknown brightness,
\* and its raw is the input whenever the input has at least one byte.
C14_InvalidIsUnknown ==
    (Parsed /\ (Len(pfArg) < 6 \/ SumBytes(pfArg) % 256 # 255)) =>
        /\ pfOut[1].is_on = None
        /\ pfOut[1].brightness_percent = None
        /\ Len(pfArg) >= 1 => pfOut[1].raw = Some(pfArg)

\* C14 witness: a 0x56 frame of 8 bytes with a wrong checksum came back with
\* its bytes and nothing decoded
C14_Witness ==
    /\ Parsed
    /\ Len(pfArg) = 8
    /\ pfArg[1] = 86
    /\ SumBytes(pfArg) % 256 # 255
    /\ pfOut[1] = HexagonState(None, None, Some(pfArg))

\* C15: for a checksum-valid input of at least 8 bytes that starts with 0x56,
\* _parse_state gives power = (bytes[4] != 0), brightness =
\* (u16_be(bytes[5:7]) // 10) - 5 when that lies in [0,100] and unknown
\* otherwise, whatever bytes[3] is, and raw = the input.
C15_SyncFrameDecoded ==
    (Parsed /\ Len(pfArg) >= 8 /\ SumBytes(pfArg) % 256 = 255 /\ pfArg[1] = 86) =>
        LET b == ((pfArg[6] * 256 + pfArg[7]) \div 10) - 5 IN
        /\ pfOut[1].is_on = Some(pfArg[5] # 0)
        /\ pfOut[1].brightness_percent = IF b >= 0 /\ b <= 100 THEN Some(b) ELSE None
        /\ pfOut[1].raw = Some(pfArg)

\* C15 witness: the 19-byte sync frame of the test, whose bytes[3] is 6, gave
\* power on and brightness 14
C15_Witness ==
    /\ Parsed
    /\ pfArg = TestSyncFrame
    /\ pfOut[1] = HexagonState(Some(TRUE), Some(14), Some(TestSyncFrame))

BrightnessBuilt == pfOp = "brightness" /\ pfOut # None

\* C16: set_brightness hands _write_frame a frame of cmd 0x05 with a payload
\* of two bytes; for a percent in 0..100 they are the big-endian u16 of
\* (percent + 5) * 10, and for every integer they are a value of the u16
\* range.
C16_BrightnessEncoding ==
    BrightnessBuilt =>
        LET f == pfOut[1] IN
        /\ Len(f) = 7
        /\ f[1] = 85 /\ f[2] = 5 /\ f[3] = 255 /\ f[4] = 7
        /\ f[5] \in 0..255 /\ f[6] \in 0..255
        /\ f[5] * 256 + f[6] \in 0..65535
        /\ pfArg \in 0..100 => f[5] * 256 + f[6] = (pfArg + 5) * 10
        /\ SumBytes(f) % 256 = 255

\* C16 witness: set_brightness(80) gave the wire value 850
C16_Witness ==
    /\ BrightnessBuilt
    /\ pfArg = 80
    /\ pfOut[1][5] * 256 + pfOut[1][6] = 850

\* C17: in every reachable state self._client and self._write are both set or
\* both None.
C17_ClientAndWriteTogether == (client # 0) <=> (write # None)

\* C17 witness: both were set by a connect and both are None after the first
\* write on that connection failed, while the coroutine reconnects
C17_Witness ==
    /\ client = 0
    /\ write = None
    /\ \E t \in 1..Len(tasks) :
          /\ tasks[t].kind = "write"
          /\ tasks[t].pc = "c_connect"
          /\ Len(tasks[t].log) = 1
          /\ ~tasks[t].log[1].ok
          /\ IsConnected(tasks[t].log[1].h)

\* C18: after a disconnect() has returned normally, and until the next facade
\* call, the session holds no client, no WriteConfig and no notification
\* bytes, and the client it held when disconnect() was called is closed.
C18_DisconnectLeavesNothing ==
    (caller.pc = "idle" /\ caller.ret.op = "disconnect" /\ caller.ret.kind = "ok") =>
        /\ client = 0
        /\ write = None
        /\ last_notify = None
        /\ ~IsConnected(hist.held)

\* C19: while self._closing is set no connect attempt starts, and a
\* _connect_async that leaves its backoff sleep ends there with an error
\* ("Connect aborted", "Failed to connect" after the last attempt, or the
\* cancellation of a stopped loop).
C19_ClosingStopsAttempts ==
    [][closing =>
          /\ \A h \in Handles :
                handles'[h].st = "connecting" => handles[h].st = "connecting"
          /\ \A t \in 1..Len(tasks) :
                (tasks[t].pc = "c_sleep" /\ tasks'[t].pc # "c_sleep") =>
                    /\ tasks'[t].pc = "done"
                    /\ tasks'[t].res \in {"ConnectAborted", "ConnectFailed",
                                           "cancelled"}]_vars

\* the multiples of retry_delay_s slept after attempts 1..n
Backoffs(n) == [i \in 1..n |-> i]

\* C20 as stated: connect() sleeps retry_delay_s * k after failed attempt k
\* for k = 1..N-1 only, and fails after attempt N without another sleep.
C20_Original ==
    \A t \in 1..Len(tasks) :
        tasks[t].kind = "connect" =>
            /\ Len(tasks[t].slept) <= ConnectRetries - 1
            /\ tasks[t].slept = Backoffs(Len(tasks[t].slept))
            /\ tasks[t].res = "ConnectFailed" =>
                  tasks[t].slept = Backoffs(ConnectRetries - 1)

\* C20 amended: connect() sleeps retry_delay_s * k after every failed attempt
\* k = 1..N, the last one included; attempt k + 1 starts only after the k-th
\* sleep, and a connect() that fails has slept retry_delay_s * (1 + ... + N).
C20_BackoffAfterEveryAttempt ==
    \A t \in 1..Len(tasks) :
        tasks[t].kind = "connect" =>
            /\ Len(tasks[t].slept) <= ConnectRetries
            /\ tasks[t].slept = Backoffs(Len(tasks[t].slept))
            /\ tasks[t].pc = "c_connect" =>
                  Len(tasks[t].slept) = tasks[t].attempt - 1
            /\ tasks[t].pc = "c_sleep" =>
                  Len(tasks[t].slept) = tasks[t].attempt
            /\ tasks[t].res = "ConnectFailed" =>
                  tasks[t].slept = Backoffs(ConnectRetries)

\* C20 witness: a connect() failed after sleeping once after each of its
\* ConnectRetries attempts
C20_Witness ==
    \E t \in 1..Len(tasks) :
        /\ tasks[t].kind = "connect"
        /\ tasks[t].pc = "done"
        /\ tasks[t].res = "ConnectFailed"
        /\ tasks[t].attempt = ConnectRetries
        /\ tasks[t].slept = Backoffs(ConnectRetries)

\* C21: for a checksum-valid input of at least 6 bytes that starts with 0x55,
\* _parse_state gives unknown power and brightness when bytes[3] is not the
\* length of the input; otherwise power = (bytes[4] != 0) and brightness =
\* bytes[5] - 5 when the input has at least 7 bytes and that value lies in
\* [0,100], unknown otherwise. For an input whose first byte is neither 0x55
\* nor 0x56 power and brightness are unknown. raw is the input in every case.
C21_StatusFrameDecoded ==
    (Parsed /\ Len(pfArg) >= 1) =>
        /\ (Len(pfArg) >= 6 /\ SumBytes(pfArg) % 256 = 255 /\ pfArg[1] = 85) =>
              IF pfArg[4] # Len(pfArg)
              THEN pfOut[1] = HexagonState(None, None, Some(pfArg))
              ELSE /\ pfOut[1].is_on = Some(pfArg[5] # 0)
                   /\ pfOut[1].brightness_percent =
                         IF Len(pfArg) >= 7 /\ pfArg[6] - 5 >= 0 /\ pfArg[6] - 5 <= 100
                         THEN Some(pfArg[6] - 5)
                         ELSE None
                   /\ pfOut[1].raw = Some(pfArg)
        /\ pfArg[1] \notin {85, 86} =>
              pfOut[1] = HexagonState(None, None, Some(pfArg))

\* C21 witness: a 0x55 frame of 7 bytes with bytes[3] = 7, power byte 1 and
\* brightness byte 105 gave power on and brightness 100
C21_Witness ==
    /\ Parsed
    /\ pfArg = WithChecksum(<<85, 0, 255, 7, 1, 105>>)
    /\ pfOut[1] = HexagonState(Some(TRUE), Some(100), Some(pfArg))

Encoded == pfOp = "color" /\ pfOut # None

\* six times the exact HSV hue of the clamped channels as a fraction over
\* max - min (max # min)
HueSixths(r, g, b) ==
    LET mx == IF r >= g /\ r >= b THEN r ELSE IF g >= b THEN g ELSE b
        mn == IF r <= g /\ r <= b THEN r ELSE IF g <= b THEN g ELSE b
    IN  IF r = mx THEN g - b
        ELSE IF g = mx THEN 2 * (mx - mn) + (b - r)
        ELSE 4 * (mx - mn) + (r - g)

\* C22: _rgb_to_hue_sat_payload returns 4 bytes; the first big-endian u16 is
\* within [0,360) and is the exact HSV hue of the clamped channels in whole
\* degrees (the hue cut or raised to an integer, 0 for a grey), and the
\* second is within [0,1000] and is an integer nearest to 1000 * (max - min)
\* / max (0 when max is 0).
C22_HueSatEncoding ==
    Encoded =>
        LET r   == ClampInt(pfArg[1], 0, 255)
            g   == ClampInt(pfArg[2], 0, 255)
            b   == ClampInt(pfArg[3], 0, 255)
            mx  == IF r >= g /\ r >= b THEN r ELSE IF g >= b THEN g ELSE b
            mn  == IF r <= g /\ r <= b THEN r ELSE IF g <= b THEN g ELSE b
            p   == pfOut[1]
            hue == p[1] * 256 + p[2]
            sat == p[3] * 256 + p[4]
            x   == 60 * HueSixths(r, g, b)
        IN  /\ Len(p) = 4
            /\ hue >= 0 /\ hue < 360
            /\ sat >= 0 /\ sat <= 1000
            /\ IF mx = mn THEN hue = 0
               ELSE hue \in {(x \div (mx - mn)) % 360,
                             (-((-x) \div (mx - mn))) % 360}
            /\ IF mx = 0 THEN sat = 0
               ELSE /\ 2 * (sat * mx - 1000 * (mx - mn)) <= mx
                    /\ 2 * (1000 * (mx - mn) - sat * mx) <= mx

\* the connections that are open
OpenHandles == {h \in Handles : IsConnected(h)}

\* a coroutine of a running loop is inside the connect attempt that made h,
\* or inside the client.disconnect() that closes it
HeldByCoroutine(h) ==
    \E t \in 1..Len(tasks) :
        /\ tasks[t].pc \in {"c_services", "c_svcdisc", "c_notify", "d_disc"}
        /\ tasks[t].h = h
        /\ loop = tasks[t].gen

\* C23: at most one connection made by the session is open, and an open
\* connection is the one of self._client unless a coroutine is still making
\* or closing it: a client dropped after a write failure, replaced by a
\* reconnect or left by a failed or superseded attempt has been closed.
C23_OneOpenConnection ==
    /\ Cardinality(OpenHandles) <= 1
    /\ \A h \in OpenHandles : h = client \/ HeldByCoroutine(h)

\* C24: when the link of a connection that is not the one of self._client
\* is lost and its disconnected_callback runs, while self._client is a
\* connected client, self._client, self._write and self._last_notify stay
\* as they are.
C24_StaleCallbackIgnored ==
    [][\A h \in Handles :
          (/\ Drop(h)
           /\ LoopAlive(handles[h].gen)
           /\ IsConnected(client)
           /\ h # client) =>
              /\ client' = client
              /\ write' = write
              /\ last_notify' = last_notify]_vars

\* a command of the facade is called
CommandCall ==
    \/ \E on \in BOOLEAN : CallPower(on)
    \/ \E percent \in PercentInputs : CallSetBrightness(percent)
    \/ \E c \in RgbInputs : CallSetRgb(c)
    \/ \E scene \in SceneInputs, speed \in SpeedInputs : CallSetScene(scene, speed)

\* C25: a command (turn_on, turn_off, set_rgb, set_brightness, set_scene)
\* called before the first connect() or after a disconnect() and before the
\* next connect(), which is when self._thread is None, returns at once with
\* the not-connected error: no coroutine is submitted, no connection is
\* started and the session's fields stay as they are.  A connect attempt is
\* started only by a coroutine of a loop that connect() started and that
\* still runs its tasks.
C25_NoCommandAfterDisconnect ==
    [][/\ (thread = 0 /\ CommandCall) =>
              /\ caller'.pc = "idle"
              /\ caller'.ret.kind = "err"
              /\ caller'.ret.err = "NotConnected"
              /\ UNCHANGED <<loop, thread, loops, cb, closing, client, write,
                             last_notify, notify_event, handles, tasks,
                             abandoned>>
       /\ \A h \in Handles :
              (handles'[h].st = "connecting" /\ handles[h].st # "connecting") =>
                  \E t \in 1..Len(tasks) :
                      /\ tasks'[t].pc = "c_connect"
                      /\ tasks'[t].h = h
                      /\ tasks[t].gen \in 1..gen
                      /\ LoopAlive(tasks[t].gen)]_vars

====
